---- MODULE Spec2Model ----
(***************************************************************************)
(* A model of cmsgpack (src/msgpack.c): the growth buffer, the low level   *)
(* encoders, the cursor and the recursive decoder run as a step machine    *)
(* over a heap of mp_node records, the top-level unpack loop, pack, free   *)
(* and the builders.                                                       *)
(*                                                                         *)
(* Representation.  A byte is an integer 0..255 and a byte string is a     *)
(* sequence of bytes.  The 64-bit union mp_node.number is held as its 8    *)
(* bytes, most significant first, read as two's complement through intval  *)
(* and as a magnitude through uintval.  Pointers are allocation numbers,   *)
(* 0 is NULL.  A cursor position is an offset from the start of the input. *)
(* The state holds a byte string as its runs, << byte, count >> pairs in    *)
(* order (Runs, Bytes); every operation works on the bytes.                 *)
(***************************************************************************)
EXTENDS Integers, Sequences, FiniteSets, TLC

(* enum mp_type *)
MP_NIL == 0
MP_BOOL == 1
MP_FLT == 2
MP_INT == 3
MP_STR == 4
MP_BLOB == 5
MP_EXT == 6
MP_ARR == 7
MP_MAP == 8

MP_CUR_ERROR_NONE == 0
MP_CUR_ERROR_EOF == 1
MP_CUR_ERROR_BADFMT == 2

NULL == 0

(* ------------------------------ bounds --------------------------------- *)

(* Longest input enumerated over Alphabet. *)
MaxLen == 3
(* Payload lengths 0..MaxPayload are all tried by the encoder actions. *)
MaxPayload == 40
(* Integers -MaxSmallInt..MaxSmallInt are all tried by the integer actions. *)
MaxSmallInt == 270
MaxOps == 2
(* Longest input of the runs checked for termination. *)
MaxRunInput == 12
(* Most mp_buf_append calls on one buffer. *)
MaxAppends == 4
(* Longest standard input handed to mp2json: one block and one byte. *)
MaxStdin == 4097

(* ------------------------------ bytes ---------------------------------- *)

RECURSIVE BitAnd(_, _)
(* a & b on non-negative integers *)
BitAnd(a, b) ==
  IF a = 0 \/ b = 0 THEN 0
  ELSE (a % 2) * (b % 2) + 2 * BitAnd(a \div 2, b \div 2)

(* n bytes b. *)
Fill(n, b) == [i \in 1..n |-> b]

(* The runs of the byte string s: << byte, count >> for each maximal block  *)
(* of equal bytes, in order.                                                *)
Runs(s) ==
  LET v == s \o <<>>
      S == {i \in 1..Len(v) : i = 1 \/ v[i] # v[i - 1]}
      n == Cardinality(S)
      start == [k \in 1..(n + 1) |->
                 IF k = n + 1 THEN Len(v) + 1
                 ELSE CHOOSE i \in S : Cardinality({j \in S : j < i}) = k - 1]
  IN  [k \in 1..n |-> << v[start[k]], start[k + 1] - start[k] >>] \o <<>>

RECURSIVE BytesOf(_, _, _)
(* The bytes of runs lo..hi of r, by halves. *)
BytesOf(r, lo, hi) ==
  IF lo > hi THEN <<>>
  ELSE IF lo = hi THEN Fill(r[lo][2], r[lo][1])
  ELSE BytesOf(r, lo, (lo + hi) \div 2) \o BytesOf(r, (lo + hi) \div 2 + 1, hi)

(* The byte string with runs r. *)
Bytes(r) == BytesOf(r, 1, Len(r)) \o <<>>

(* A size_t at or above SizeBig is held as SizeBig: every such value is only *)
(* compared with the cursor's remaining length or counted down, and no input *)
(* is that long.                                                              *)
SizeBig == 2147483647

(* (b1 << 8) | b2 *)
BE16(b1, b2) == b1 * 256 + b2

(* ((size_t)b1 << 24) | ((size_t)b2 << 16) | ((size_t)b3 << 8) | (size_t)b4 *)
BE32(b1, b2, b3, b4) ==
  IF b1 >= 128 THEN SizeBig
  ELSE b1 * 16777216 + b2 * 65536 + b3 * 256 + b4

(* The four bytes (len & 0xff000000) >> 24, ..., len & 0xff of a length. *)
LenBytes32(len) ==
  << (len \div 16777216) % 256, (len \div 65536) % 256,
     (len \div 256) % 256, len % 256 >>

(* ------------------------ the 64-bit number slot ----------------------- *)

Zero64 == <<0, 0, 0, 0, 0, 0, 0, 0>>

(* The slot holding 0 <= n < 2^31. *)
U64(n) == <<0, 0, 0, 0>> \o LenBytes32(n)

(* The slot holding -2^31 <= n < 2^31 as an int64_t. *)
S64(n) ==
  IF n >= 0 THEN U64(n)
  ELSE LET m == (n + 2147483647) + 1
           w == LenBytes32(m)
       IN  <<255, 255, 255, 255, 128 + w[1], w[2], w[3], w[4]>>

(* Sign extension of a w-byte big-endian two's complement field. *)
SignExtend(bs) ==
  [i \in 1..(8 - Len(bs)) |-> IF bs[1] >= 128 THEN 255 ELSE 0] \o bs

(* Zero extension of a big-endian unsigned field. *)
ZeroExtend(bs) == [i \in 1..(8 - Len(bs)) |-> 0] \o bs

IsNeg64(n) == n[1] >= 128

(* a <= b as unsigned 64-bit values. *)
LeU64(a, b) ==
  \/ a = b
  \/ \E i \in 1..8 : a[i] < b[i] /\ \A j \in 1..(i - 1) : a[j] = b[j]

(* a <= b as int64_t. *)
LeS64(a, b) ==
  IF IsNeg64(a) # IsNeg64(b) THEN IsNeg64(a) ELSE LeU64(a, b)

(* A slot written through intval by a size_t count, read back as a length. *)
SizeOf64(n) ==
  IF n[1] = 0 /\ n[2] = 0 /\ n[3] = 0 /\ n[4] = 0
  THEN BE32(n[5], n[6], n[7], n[8])
  ELSE SizeBig

I64_0xffffffff == <<0, 0, 0, 0, 255, 255, 255, 255>>
I64_min32 == <<255, 255, 255, 255, 128, 0, 0, 0>>

(* ---------------------------- growth buffer ---------------------------- *)
(* b holds the bytes of the block at buf->b that were written so far; free  *)
(* is the unused capacity; grows counts the reallocations and cap is the    *)
(* size the block at buf->b was allocated with (0: buf->b is NULL); freed   *)
(* says that the mp_buf itself was released.                                *)

(* mp_realloc handing out a zero-filled new block whatever osize is. *)
mp_realloc_calloc(target, osize, nsize) ==
  IF nsize = 0 THEN [mem |-> <<>>, size |-> 0]
  ELSE [mem |-> [i \in 1..Len(target) |-> 0], size |-> nsize]

(* mp_realloc(target, osize, nsize): the block it returns, as the bytes at  *)
(* the offsets the caller had written in target, and its size.  free gives  *)
(* NULL, calloc a zero-filled block, realloc keeps the contents up to the   *)
(* smaller of the two sizes.                                                *)
mp_realloc(target, osize, nsize) ==
  IF nsize = 0 THEN [mem |-> <<>>, size |-> 0]
  ELSE IF osize = 0 THEN [mem |-> [i \in 1..Len(target) |-> 0], size |-> nsize]
  ELSE [mem |-> [i \in 1..Len(target) |-> IF i <= nsize THEN target[i] ELSE 0],
        size |-> nsize]

mp_buf_new == [b |-> <<>>, len |-> 0, free |-> 0, grows |-> 0, cap |-> 0, freed |-> FALSE]

mp_buf_append(buf, s, len) ==
  LET grow == buf.free < len
      newsize == (buf.len + len) * 2
      blk == IF grow THEN mp_realloc(buf.b, buf.len + buf.free, newsize)
             ELSE [mem |-> buf.b, size |-> buf.cap]
      free1 == IF grow THEN newsize - buf.len ELSE buf.free
  IN  [b |-> blk.mem \o SubSeq(s, 1, len),
       len |-> buf.len + len,
       free |-> free1 - len,
       grows |-> buf.grows + (IF grow THEN 1 ELSE 0),
       cap |-> blk.size,
       freed |-> buf.freed]

(* mp_buf_free(buf): the block at buf->b, when there is one, goes back      *)
(* through mp_realloc(.., 0) and then the mp_buf does.                      *)
mp_buf_free(buf) ==
  LET blk == IF buf.cap # 0 THEN mp_realloc(buf.b, buf.len + buf.free, 0)
             ELSE [mem |-> buf.b, size |-> buf.cap]
  IN  [buf EXCEPT !.b = blk.mem, !.cap = blk.size, !.freed = TRUE]

(* --------------------------- low level encoders ------------------------ *)

(* mp_encode_bytes with the fixstr test written as len <= 32. *)
mp_encode_bytes_fix32(buf, s, len) ==
  LET hdr == IF len <= 32 THEN << 160 + BitAnd(len, 255) >>
             ELSE IF len <= 255 THEN << 217, len >>
             ELSE IF len <= 65535 THEN << 218, BitAnd(len, 65280) \div 256, BitAnd(len, 255) >>
             ELSE << 219 >> \o LenBytes32(len)
  IN  mp_buf_append(mp_buf_append(buf, hdr, Len(hdr)), s, len)

mp_encode_bytes(buf, s, len) ==
  LET hdr == IF len < 32 THEN << 160 + BitAnd(len, 255) >>
             ELSE IF len <= 255 THEN << 217, len >>
             ELSE IF len <= 65535 THEN << 218, BitAnd(len, 65280) \div 256, BitAnd(len, 255) >>
             ELSE << 219 >> \o LenBytes32(len)
  IN  mp_buf_append(mp_buf_append(buf, hdr, Len(hdr)), s, len)

mp_encode_blob(buf, s, len) ==
  LET hdr == IF len <= 255 THEN << 196, len >>
             ELSE IF len <= 65535 THEN << 197, BitAnd(len, 65280) \div 256, BitAnd(len, 255) >>
             ELSE << 198 >> \o LenBytes32(len)
  IN  mp_buf_append(mp_buf_append(buf, hdr, Len(hdr)), s, len)

RECURSIVE popcount(_)
popcount(n) == IF n = 0 THEN 0 ELSE (n % 2) + popcount(n \div 2)

RECURSIVE ctz(_)
ctz(n) == IF n % 2 = 1 THEN 0 ELSE 1 + ctz(n \div 2)

(* mp_encode_ext with the ext 8 length written before the etype. *)
mp_encode_ext_lenfirst(buf, etype, s, len) ==
  LET hdr == IF len <= 16 /\ popcount(len) = 1 THEN << 212 + ctz(len), etype >>
             ELSE IF len <= 255 THEN << 199, len, etype >>
             ELSE IF len <= 65535
               THEN << 200, etype, BitAnd(len, 65280) \div 256, BitAnd(len, 255) >>
             ELSE << 201, etype >> \o LenBytes32(len)
  IN  mp_buf_append(mp_buf_append(buf, hdr, Len(hdr)), s, len)

mp_encode_ext(buf, etype, s, len) ==
  LET hdr == IF len <= 16 /\ popcount(len) = 1 THEN << 212 + ctz(len), etype >>
             ELSE IF len <= 255 THEN << 199, etype, len >>
             ELSE IF len <= 65535
               THEN << 200, etype, BitAnd(len, 65280) \div 256, BitAnd(len, 255) >>
             ELSE << 201, etype >> \o LenBytes32(len)
  IN  mp_buf_append(mp_buf_append(buf, hdr, Len(hdr)), s, len)

(* mp_encode_int with the int 8 test written as n > -128. *)
mp_encode_int_gt128(buf, n) ==
  LET b == IF ~IsNeg64(n)
           THEN IF LeS64(n, S64(127)) THEN << n[8] % 128 >>
                ELSE IF LeS64(n, S64(255)) THEN << 204, n[8] >>
                ELSE IF LeS64(n, S64(65535)) THEN << 205, n[7], n[8] >>
                ELSE IF LeS64(n, I64_0xffffffff) THEN << 206, n[5], n[6], n[7], n[8] >>
                ELSE << 207 >> \o n
           ELSE IF LeS64(S64(-32), n) THEN << n[8] >>
                ELSE IF LeS64(S64(-127), n) THEN << 208, n[8] >>
                ELSE IF LeS64(S64(-32768), n) THEN << 209, n[7], n[8] >>
                ELSE IF LeS64(I64_min32, n) THEN << 210, n[5], n[6], n[7], n[8] >>
                ELSE << 211 >> \o n
  IN  mp_buf_append(buf, b, Len(b))

mp_encode_int(buf, n) ==
  LET b == IF ~IsNeg64(n)
           THEN IF LeS64(n, S64(127)) THEN << n[8] % 128 >>
                ELSE IF LeS64(n, S64(255)) THEN << 204, n[8] >>
                ELSE IF LeS64(n, S64(65535)) THEN << 205, n[7], n[8] >>
                ELSE IF LeS64(n, I64_0xffffffff) THEN << 206, n[5], n[6], n[7], n[8] >>
                ELSE << 207 >> \o n
           ELSE IF LeS64(S64(-32), n) THEN << n[8] >>
                ELSE IF LeS64(S64(-128), n) THEN << 208, n[8] >>
                ELSE IF LeS64(S64(-32768), n) THEN << 209, n[7], n[8] >>
                ELSE IF LeS64(I64_min32, n) THEN << 210, n[5], n[6], n[7], n[8] >>
                ELSE << 211 >> \o n
  IN  mp_buf_append(buf, b, Len(b))

mp_encode_array(buf, n) ==
  LET b == IF n <= 15 THEN << 144 + BitAnd(n, 15) >>
           ELSE IF n <= 65535 THEN << 220, BitAnd(n, 65280) \div 256, BitAnd(n, 255) >>
           ELSE << 221 >> \o LenBytes32(n)
  IN  mp_buf_append(buf, b, Len(b))

mp_encode_map(buf, n) ==
  LET b == IF n <= 15 THEN << 128 + BitAnd(n, 15) >>
           ELSE IF n <= 65535 THEN << 222, BitAnd(n, 65280) \div 256, BitAnd(n, 255) >>
           ELSE << 223 >> \o LenBytes32(n)
  IN  mp_buf_append(buf, b, Len(b))

(* ------------------------------ floats --------------------------------- *)
(* An IEEE 754 binary64 is its 8 bytes, a binary32 its 4 bytes, most       *)
(* significant first (the order memrevifle gives on the wire).             *)

DExp(d) == (d[1] % 128) * 16 + d[2] \div 16
(* The top 23 bits of a double's 52-bit fraction. *)
DFrac23(d) == (d[2] % 16) * 524288 + d[3] * 2048 + d[4] * 8 + d[5] \div 32
(* Whether the low 29 bits of the fraction are all zero. *)
DLow29Zero(d) == d[5] % 32 = 0 /\ d[6] = 0 /\ d[7] = 0 /\ d[8] = 0

Pow2N(k) == 2 ^ k

F32Bytes(sign, fexp, m23) ==
  << sign * 128 + fexp \div 2, (fexp % 2) * 128 + m23 \div 65536,
     (m23 \div 256) % 256, m23 % 256 >>

F64Bytes(sign, dexp, m23) ==
  << sign * 128 + dexp \div 16, (dexp % 16) * 16 + m23 \div 524288,
     (m23 \div 2048) % 256, (m23 \div 8) % 256, (m23 % 8) * 32, 0, 0, 0 >>

(* float f = d; d == (double)f : d is a number that binary32 holds exactly. *)
FitsFloat(d) ==
  LET e == DExp(d)
      m == DFrac23(d)
  IN  CASE e = 2047 -> m = 0 /\ DLow29Zero(d)
        [] e = 0 -> m = 0 /\ DLow29Zero(d)
        [] e >= 897 /\ e <= 1150 -> DLow29Zero(d)
        [] e >= 874 /\ e <= 896 -> DLow29Zero(d) /\ m % Pow2N(897 - e) = 0
        [] OTHER -> FALSE

(* The bytes of (float)d for a d that FitsFloat. *)
DoubleToFloat(d) ==
  LET e == DExp(d)
      m == DFrac23(d)
      sign == d[1] \div 128
  IN  CASE e = 2047 -> F32Bytes(sign, 255, 0)
        [] e = 0 -> F32Bytes(sign, 0, 0)
        [] e >= 897 -> F32Bytes(sign, e - 896, m)
        [] OTHER -> F32Bytes(sign, 0, Pow2N(e - 874) + m \div Pow2N(897 - e))

(* Index of the highest set bit of n, 0 < n < 2^23. *)
HighBit(n) == CHOOSE h \in 0..22 : Pow2N(h) <= n /\ n < Pow2N(h + 1)

(* L->number.doubleval = f : the double equal to the float with bytes f. *)
FloatToDouble(f) ==
  LET sign == f[1] \div 128
      fexp == (f[1] % 128) * 2 + f[2] \div 128
      m == (f[2] % 128) * 65536 + f[3] * 256 + f[4]
  IN  CASE fexp = 255 ->
             F64Bytes(sign, 2047, IF m = 0 THEN 0 ELSE m + (IF m < 4194304 THEN 4194304 ELSE 0))
        [] fexp = 0 /\ m = 0 -> F64Bytes(sign, 0, 0)
        [] fexp = 0 /\ m # 0 ->
             LET h == HighBit(m)
             IN  F64Bytes(sign, h + 874, (m - Pow2N(h)) * Pow2N(23 - h))
        [] OTHER -> F64Bytes(sign, fexp + 896, m)

mp_encode_double(buf, d) ==
  LET b == IF FitsFloat(d) THEN << 202 >> \o DoubleToFloat(d)
           ELSE << 203 >> \o d
  IN  mp_buf_append(buf, b, Len(b))

(* ------------------------------- state --------------------------------- *)

VARIABLES
  pc,      \* where the caller is: "idle", inside unpack ("value", "ret"), "done",
           \* "built", "packed", "enc", "tree", "fault", "exit", "buf"
  heap,    \* nodes, payload blocks, and which of them were freed
  input,   \* the byte slice handed to msgpack_unpack (its runs)
  cur,     \* mp_cur: p (offset into input), left, err
  stack,   \* the active mp_decode_array / mp_decode_hash calls, innermost last
  target,  \* the node the pending mp_decode_value call decodes into
  cnt,     \* mp_unpack's cnt
  ret,     \* msgpack_unpack's return value
  root,    \* *L of msgpack_unpack, or the node a builder returned
  oob,     \* whether a byte was read at or past the end of the input
  buf,     \* the mp_buf of the last pack or encoder call
  packed,  \* what msgpack_pack returned: ptr (0 = NULL), bytes, len
  call,    \* the last encoder or builder call and its arguments
  orig,    \* the node that was packed, kept to compare after the round trip
  round,   \* 0: first unpack or build, 1: unpack of the packed bytes
  top,     \* mp_unpack's L: the root being decoded
  mark,    \* how many nodes and blocks existed when msgpack_unpack was called
  first,   \* the byte slice of the first msgpack_unpack call (round 0)
  starts,  \* mp_unpack's loop so far: << root node, offset its value starts at >>
  op,      \* the last tree operation: its arguments, its result, the heap before it
  loose,   \* the nodes the caller holds outside the tree: detached or duplicated
  tool,    \* what main of mp2json did after msgpack_unpack returned
  calls,   \* the mp_decode_value calls of this unpack: << node, offset of c->p >>
  appends  \* the byte strings handed to mp_buf_append since mp_buf_new, in call order

vars == << pc, heap, input, cur, stack, target, cnt, ret, root, oob, buf,
           packed, call, orig, round, top, mark, first, starts, op, loose, tool, calls,
           appends >>

(* -------------------------------- heap --------------------------------- *)

(* calloc(1, sizeof(mp_node)) *)
ZeroNode ==
  [next |-> NULL, prev |-> NULL, child |-> NULL, key |-> NULL,
   type |-> MP_NIL, etype |-> 0, data |-> NULL, number |-> Zero64]

EmptyHeap == [nodes |-> <<>>, blocks |-> <<>>, freedN |-> {}, freedB |-> {}]

(* The heap after mp_node_new(); the new node is LastNode of the result. *)
mp_node_new(H) == [H EXCEPT !.nodes = Append(@, ZeroNode)]

LastNode(H) == Len(H.nodes)

(* mp_push_data(L, data, count, type): a fresh block of count + 1 bytes. *)
mp_push_data(H, L, data, count, type) ==
  LET new == Len(H.blocks) + 1
  IN  [H EXCEPT !.blocks = Append(@, Runs(SubSeq(data, 1, count) \o <<0>>)),
                !.nodes[L] = [@ EXCEPT !.type = type, !.data = new,
                                       !.number = U64(count)]]

RECURSIVE FreeWalk(_, _)
(* The nodes msgpack_free(c) visits: c, its key, its child, and the chain after it. *)
FreeWalk(H, c) ==
  IF c = NULL THEN {}
  ELSE {c} \cup FreeWalk(H, H.nodes[c].key)
           \cup FreeWalk(H, H.nodes[c].child)
           \cup FreeWalk(H, H.nodes[c].next)

msgpack_free(H, c) ==
  LET ns == FreeWalk(H, c)
  IN  [H EXCEPT !.freedN = @ \cup ns,
                !.freedB = @ \cup ({H.nodes[n].data : n \in ns} \ {NULL})]


(* ------------------------------- cursor -------------------------------- *)

mp_cur_init(len) == [p |-> 0, left |-> len, err |-> MP_CUR_ERROR_NONE]

(* mp_cur_consume leaving the cursor where it is. *)
mp_cur_consume_stay(c, len) == c

(* mp_cur_consume taking one byte more from left than it advances p. *)
mp_cur_consume_onemore(c, len) == [c EXCEPT !.p = @ + len, !.left = @ - len - 1]

mp_cur_consume(c, len) == [c EXCEPT !.p = @ + len, !.left = @ - len]

(* The test of mp_cur_need: TRUE when the macro sets EOF and returns. *)
mp_cur_short(c, len) == c.left < len

(* c->p[i] of the input s; ub is what a read past the end of s yields. *)
PAt(s, c, i, ub) == IF c.p + i < Len(s) THEN s[c.p + i + 1] ELSE ub

(* The l bytes at c->p + off that mp_push_data copies. *)
PSlice(s, c, off, l) == SubSeq(s, c.p + off + 1, c.p + off + l)

(* ------------------------------- decoder ------------------------------- *)
(* mp_decode_value up to its call of mp_decode_array / mp_decode_hash.     *)
(* The result: the cursor and the node's fields after it, the payload      *)
(* mp_push_data is to copy (push), the container call it ends in (call: 1   *)
(* array, 2 hash, with clen), and acc, the reads of c->p[i] it made, each   *)
(* as << i, c->left at that moment >>.                                      *)

DRes(c, L, acc) ==
  [c |-> c, L |-> L, push |-> FALSE, pdata |-> <<>>, ptype |-> MP_NIL,
   call |-> 0, clen |-> 0, acc |-> acc]

DEof(c, L, acc) == DRes([c EXCEPT !.err = MP_CUR_ERROR_EOF], L, acc)

DPush(c, L, acc, data, type) ==
  [DRes(c, L, acc) EXCEPT !.push = TRUE, !.pdata = data, !.ptype = type]

DCall(c, L, acc, kind, len) ==
  [DRes(c, L, acc) EXCEPT !.call = kind, !.clen = len]

At(c, idxs) == {<< i, c.left >> : i \in idxs}

(* The last index a memcpy of l bytes from c->p + off reads. *)
AtCopy(c, off, l) == IF l > 0 THEN At(c, {off + l - 1}) ELSE {}

StrOrBlob(hdr) == IF BitAnd(hdr, 16) # 0 THEN MP_STR ELSE MP_BLOB

(* The integer and scalar cases: width w bytes after the header. *)
DScalar(s, c, L, ub, w, type, number) ==
  IF mp_cur_short(c, 1 + w) THEN DEof(c, L, At(c, {0}))
  ELSE DRes(mp_cur_consume(c, 1 + w),
            [L EXCEPT !.type = type, !.number = number],
            At(c, 0..w))

(* bin/str 8 and 16, fixstr: the length is in the w bytes after the header. *)
DBytes(s, c, L, ub, w, l, type) ==
  IF mp_cur_short(c, 1 + w) THEN DEof(c, L, At(c, {0}))
  ELSE IF mp_cur_short(c, 1 + w + l) THEN DEof(c, L, At(c, 0..w))
  ELSE DPush(mp_cur_consume(c, 1 + w + l), L,
             At(c, 0..w) \cup AtCopy(c, 1 + w, l),
             PSlice(s, c, 1 + w, l), type)

(* bin 32 / str 32: the header is consumed before the payload is checked,   *)
(* and the kind is taken from c->p[0] after that.                           *)
DBytes32(s, c, L, ub) ==
  IF mp_cur_short(c, 5) THEN DEof(c, L, At(c, {0}))
  ELSE LET l == BE32(PAt(s, c, 1, ub), PAt(s, c, 2, ub), PAt(s, c, 3, ub), PAt(s, c, 4, ub))
           c1 == mp_cur_consume(c, 5)
       IN  IF mp_cur_short(c1, l) THEN DEof(c1, L, At(c, 0..4))
           ELSE DPush(mp_cur_consume(c1, l), L,
                      At(c, 0..4) \cup At(c1, {0}) \cup AtCopy(c1, 0, l),
                      PSlice(s, c1, 0, l), StrOrBlob(PAt(s, c1, 0, ub)))

(* fixext, ext 8, ext 16: etype is stored before the payload is checked.    *)
DExt(s, c, L, ub, w, l) ==
  IF mp_cur_short(c, 2 + w) THEN DEof(c, L, At(c, {0}))
  ELSE LET L1 == [L EXCEPT !.etype = PAt(s, c, 1, ub)]
       IN  IF mp_cur_short(c, 2 + w + l) THEN DEof(c, L1, At(c, 0..(1 + w)))
           ELSE DPush(mp_cur_consume(c, 2 + w + l), L1,
                      At(c, 0..(1 + w)) \cup AtCopy(c, 2 + w, l),
                      PSlice(s, c, 2 + w, l), MP_EXT)

(* ext 32: the length is read from p[1..4], etype from p[1], 6 bytes consumed. *)
DExt32(s, c, L, ub) ==
  IF mp_cur_short(c, 6) THEN DEof(c, L, At(c, {0}))
  ELSE LET l == BE32(PAt(s, c, 1, ub), PAt(s, c, 2, ub), PAt(s, c, 3, ub), PAt(s, c, 4, ub))
           L1 == [L EXCEPT !.etype = PAt(s, c, 1, ub)]
           c1 == mp_cur_consume(c, 6)
       IN  IF mp_cur_short(c1, l) THEN DEof(c1, L1, At(c, 0..4))
           ELSE DPush(mp_cur_consume(c1, l), L1,
                      At(c, 0..4) \cup AtCopy(c1, 0, l),
                      PSlice(s, c1, 0, l), MP_EXT)

(* array/map 16 and 32: w length bytes, then the container call. *)
DContainer(s, c, L, ub, w, l, kind) ==
  IF mp_cur_short(c, 1 + w) THEN DEof(c, L, At(c, {0}))
  ELSE DCall(mp_cur_consume(c, 1 + w), L, At(c, 0..w), kind, l)

mp_decode_value(s, c, L, ub) ==
  IF mp_cur_short(c, 1) THEN DEof(c, L, {})
  ELSE
  LET h == PAt(s, c, 0, ub)
      P(i) == PAt(s, c, i, ub)
  IN  CASE h = 204 -> DScalar(s, c, L, ub, 1, MP_INT, ZeroExtend(<< P(1) >>))
        [] h = 208 -> DScalar(s, c, L, ub, 1, MP_INT, SignExtend(<< P(1) >>))
        [] h = 205 -> DScalar(s, c, L, ub, 2, MP_INT, ZeroExtend(<< P(1), P(2) >>))
        [] h = 209 -> DScalar(s, c, L, ub, 2, MP_INT, SignExtend(<< P(1), P(2) >>))
        [] h = 206 -> DScalar(s, c, L, ub, 4, MP_INT, ZeroExtend(<< P(1), P(2), P(3), P(4) >>))
        [] h = 210 -> DScalar(s, c, L, ub, 4, MP_INT, SignExtend(<< P(1), P(2), P(3), P(4) >>))
        [] h = 207 \/ h = 211 ->
             DScalar(s, c, L, ub, 8, MP_INT,
                     << P(1), P(2), P(3), P(4), P(5), P(6), P(7), P(8) >>)
        [] h = 192 -> DRes(mp_cur_consume(c, 1), [L EXCEPT !.type = MP_NIL], At(c, {0}))
        [] h = 194 \/ h = 195 -> DScalar(s, c, L, ub, 0, MP_BOOL, U64(h - 194))
        [] h = 202 -> DScalar(s, c, L, ub, 4, MP_FLT,
                              FloatToDouble(<< P(1), P(2), P(3), P(4) >>))
        [] h = 203 -> DScalar(s, c, L, ub, 8, MP_FLT,
                              << P(1), P(2), P(3), P(4), P(5), P(6), P(7), P(8) >>)
        [] h >= 212 /\ h <= 216 -> DExt(s, c, L, ub, 0, Pow2N(h - 212))
        [] h = 196 \/ h = 217 -> DBytes(s, c, L, ub, 1, P(1), StrOrBlob(h))
        [] h = 197 \/ h = 218 -> DBytes(s, c, L, ub, 2, BE16(P(1), P(2)), StrOrBlob(h))
        [] h = 198 \/ h = 219 -> DBytes32(s, c, L, ub)
        [] h = 199 -> DExt(s, c, L, ub, 1, P(2))
        [] h = 200 -> DExt(s, c, L, ub, 2, BE16(P(2), P(3)))
        [] h = 201 -> DExt32(s, c, L, ub)
        [] h = 220 -> DContainer(s, c, L, ub, 2, BE16(P(1), P(2)), 1)
        [] h = 221 -> DContainer(s, c, L, ub, 4, BE32(P(1), P(2), P(3), P(4)), 1)
        [] h = 222 -> DContainer(s, c, L, ub, 2, BE16(P(1), P(2)), 2)
        [] h = 223 -> DContainer(s, c, L, ub, 4, BE32(P(1), P(2), P(3), P(4)), 2)
        [] OTHER ->
             IF BitAnd(h, 128) = 0
               THEN DScalar(s, c, L, ub, 0, MP_INT, U64(h))
             ELSE IF BitAnd(h, 224) = 224
               THEN DScalar(s, c, L, ub, 0, MP_INT, SignExtend(<< h >>))
             ELSE IF BitAnd(h, 224) = 160
               THEN DBytes(s, c, L, ub, 0, BitAnd(h, 31), MP_STR)
             ELSE IF BitAnd(h, 240) = 144
               THEN DContainer(s, c, L, ub, 0, BitAnd(h, 15), 1)
             ELSE IF BitAnd(h, 240) = 128
               THEN DContainer(s, c, L, ub, 0, BitAnd(h, 15), 2)
             ELSE DRes([c EXCEPT !.err = MP_CUR_ERROR_BADFMT], L, At(c, {0}))

(* ------------------------------- encoder ------------------------------- *)

RECURSIVE ChainLen(_, _)
ChainLen(H, c) == IF c = NULL THEN 0 ELSE 1 + ChainLen(H, H.nodes[c].next)

msgpack_get_array_size(H, L) == ChainLen(H, H.nodes[L].child)

(* The bytes L->data points at. *)
DataOf(H, L) ==
  IF H.nodes[L].data = NULL THEN <<>> ELSE Bytes(H.blocks[H.nodes[L].data])

RECURSIVE mp_encode_value(_, _, _)
RECURSIVE EncodeChain(_, _, _, _)

(* The while loops of the MP_ARR and MP_MAP cases, from child n on. *)
EncodeChain(b, H, n, isMap) ==
  IF n = NULL THEN b
  ELSE LET b1 == IF isMap THEN mp_encode_value(b, H, H.nodes[n].key) ELSE b
       IN  CHOOSE r \in {EncodeChain(b2, H, H.nodes[n].next, isMap) :
                           b2 \in {mp_encode_value(b1, H, n)}} : TRUE

mp_encode_value(b, H, L) ==
  IF L = NULL THEN b
  ELSE LET N == H.nodes[L]
       IN  CASE N.type = MP_NIL -> mp_buf_append(b, << 192 >>, 1)
             [] N.type = MP_BOOL ->
                  mp_buf_append(b, << IF N.number # Zero64 THEN 195 ELSE 194 >>, 1)
             [] N.type = MP_INT -> mp_encode_int(b, N.number)
             [] N.type = MP_FLT -> mp_encode_double(b, N.number)
             [] N.type = MP_BLOB -> mp_encode_blob(b, DataOf(H, L), SizeOf64(N.number))
             [] N.type = MP_STR -> mp_encode_bytes(b, DataOf(H, L), SizeOf64(N.number))
             [] N.type = MP_ARR ->
                  EncodeChain(mp_encode_array(b, msgpack_get_array_size(H, L)),
                              H, N.child, FALSE)
             [] N.type = MP_MAP ->
                  EncodeChain(mp_encode_map(b, msgpack_get_array_size(H, L)),
                              H, N.child, TRUE)
             [] N.type = MP_EXT ->
                  mp_encode_ext(b, N.etype, DataOf(H, L), SizeOf64(N.number))
             [] OTHER -> b

(* msgpack_pack encoding L and the siblings after it. *)
msgpack_pack_chain(H, L, oldlen) ==
  LET b == EncodeChain(mp_buf_new, H, L, FALSE)
  IN  IF b.len > 0
      THEN [ptr |-> 1, bytes |-> b.b, len |-> b.len,
            buf |-> mp_buf_free([b EXCEPT !.b = <<>>, !.cap = 0])]
      ELSE [ptr |-> NULL, bytes |-> <<>>, len |-> oldlen, buf |-> mp_buf_free(b)]

(* msgpack_pack: the returned pointer (1 for the block, NULL), the bytes of *)
(* the block, *len, and the mp_buf it encoded into as it leaves it: the    *)
(* block is taken out of the mp_buf (buf->b = NULL) when it is handed to   *)
(* the caller, and the mp_buf is released either way.                      *)
msgpack_pack(H, L, oldlen) ==
  LET b == mp_encode_value(mp_buf_new, H, L)
  IN  IF b.len > 0
      THEN [ptr |-> 1, bytes |-> b.b, len |-> b.len,
            buf |-> mp_buf_free([b EXCEPT !.b = <<>>, !.cap = 0])]
      ELSE [ptr |-> NULL, bytes |-> <<>>, len |-> oldlen, buf |-> mp_buf_free(b)]

(* ------------------------------- inputs -------------------------------- *)

Alphabet == {0, 129, 146, 161, 192, 193, 195, 196, 255}

SmallInputs == UNION {[1..k -> Alphabet] : k \in 0..MaxLen}

(* One wire integer of every family at the ends of its range. *)
IntWires ==
  {<< b >> : b \in {0, 1, 127, 224, 255}}
  \cup {<< h, b >> : h \in {204, 208}, b \in {0, 127, 128, 255}}
  \cup {<< h, b1, b2 >> : h \in {205, 209}, b1 \in {0, 127, 128, 255}, b2 \in {0, 255}}
  \cup {<< h, b1, b2, b2, b3 >> : h \in {206, 210}, b1 \in {0, 127, 128, 255},
                                  b2 \in {0, 255}, b3 \in {0, 255}}
  \cup {<< h, b1, b2, b2, b2, b3, b4, b4, b4 >> :
          h \in {207, 211}, b1 \in {0, 127, 128, 255}, b2 \in {0, 255},
          b3 \in {0, 127, 128, 255}, b4 \in {0, 255}}

Scenarios ==
  { << 192 >>, << 195 >>, << 127 >>, << 204, 255 >>, << 163, 102, 111, 111 >>,
    << 146, 1, 2 >>, << 130, 161, 97, 1, 161, 98, 194 >>, << 196, 0 >>,
    << 212, 7, 42 >>, << 192, 195, 127 >>,
    << 198, 0, 0, 0, 0 >>, << 219, 0, 0, 0, 0 >>, << 198, 0, 0, 0, 1, 65 >>,
    << 219, 0, 0, 0, 1, 49 >>, << 219, 0, 0, 0, 2, 65 >>, << 198, 255, 0, 0, 0, 0 >>,
    << 130, 0, 0, 193 >>, << 130, 0, 0, 0 >>, << 130, 0, 0, 161, 97 >>,
    << 130, 0, 0, 161 >>, << 130, 193 >>, << 131, 0, 0, 0, 0, 161, 97, 193 >>,
    << 146, 145, 193 >>, << 146, 129, 0, 193 >>, << 129, 145, 0, 146, 0 >>,
    << 199, 7, 1, 42 >>, << 199, 1, 7, 42 >>, << 199, 0, 0 >>, << 199, 7, 3, 1, 2, 3 >>,
    << 200, 7, 0, 1, 42 >>, << 200, 7, 0 >>, << 201, 0, 0, 0, 1, 7, 42 >>,
    << 201, 0, 0, 0, 0, 7 >>, << 201, 0, 0, 0, 0 >>, << 201, 1, 0, 0, 0, 0 >>,
    << 213, 7, 1, 2 >>, << 214, 7, 1, 2, 3, 4 >>, << 214, 7, 1 >>, << 212, 7 >>,
    << 202, 63, 128, 0, 0 >>, << 202, 0, 0, 0, 1 >>, << 202, 127, 128, 0, 1 >>,
    << 203, 63, 240, 0, 0, 0, 0, 0, 0 >>, << 203, 63, 185, 153, 153, 153, 153, 153, 154 >>,
    << 203, 54, 160, 0, 0, 0, 0, 0, 0 >>, << 203, 127, 240, 0, 0, 0, 0, 0, 0 >>,
    << 217, 1, 97 >>, << 218, 0, 1, 97 >>, << 197, 0, 1, 97 >>, << 218, 0 >>,
    << 220, 0, 2, 0, 1 >>, << 221, 0, 0, 0, 1, 192 >>, << 221, 255, 255, 255, 255, 0 >>,
    << 222, 0, 1, 0, 1 >>, << 223, 0, 0, 0, 1, 0, 0 >>, << 223, 0, 0 >>,
    << 220, 0, 16 >> \o Fill(16, 0), << 222, 0, 16 >> \o Fill(32, 1),
    << 144 >>, << 128 >>, << 145, 144 >>,
    << 217, 32 >> \o Fill(32, 97), << 196, 33 >> \o Fill(33, 16),
    << 201, 0, 1, 0, 0, 7 >> \o Fill(65536, 193),
    << 201, 0, 1, 0, 0, 7 >> \o Fill(256, 193) \o << 197, 254, 253 >> \o Fill(65277, 0),
    << 219, 0, 1, 0, 0 >> \o Fill(65536, 65),
    << 198, 0, 1, 0, 0 >> \o Fill(65536, 49),
    << 218, 255, 255 >> \o Fill(65535, 97),
    << 197, 1, 0 >> \o Fill(256, 7),
    << 219, 0, 0, 0, 1, 65 >>, << 198, 0, 0, 0, 1, 49 >>,
    << 201, 7, 0, 0, 0, 1, 42 >>, << 200, 7, 0, 1, 42 >>, << 199, 7, 0 >>,
    << 146, 145, 195, 161, 120 >>, << 130, 145, 1, 2, 129, 3, 4, 5 >>,
    << 147, 128, 144, 130, 1, 144, 2, 128 >> }

Inputs == SmallInputs \cup IntWires \cup Scenarios

(* What a read past the end of the input may yield when the process        *)
(* survives it (only bit 0x10 is used).                                     *)
UBBytes == {0, 16}

IntSamples ==
  {S64(k) : k \in (0 - MaxSmallInt)..MaxSmallInt}
  \cup {S64(k) : k \in {-32769, -32768, -32767, 32767, 32768, 65535, 65536, 65537,
                        2147483647, -2147483647}}
  \cup { I64_min32, I64_0xffffffff,
         << 0, 0, 0, 0, 128, 0, 0, 0 >>, << 0, 0, 0, 1, 0, 0, 0, 0 >>,
         << 255, 255, 255, 255, 127, 255, 255, 255 >>,
         << 127, 255, 255, 255, 255, 255, 255, 255 >>,
         << 128, 0, 0, 0, 0, 0, 0, 0 >>, << 1, 2, 3, 4, 5, 6, 7, 8 >>,
         << 254, 253, 252, 251, 250, 249, 248, 247 >> }

DoubleSamples ==
  { << 63, 240, 0, 0, 0, 0, 0, 0 >>, << 63, 185, 153, 153, 153, 153, 153, 154 >>,
    Zero64, << 128, 0, 0, 0, 0, 0, 0, 0 >>, << 127, 240, 0, 0, 0, 0, 0, 0 >>,
    << 255, 240, 0, 0, 0, 0, 0, 0 >>, << 127, 248, 0, 0, 0, 0, 0, 0 >>,
    << 54, 160, 0, 0, 0, 0, 0, 0 >>, << 54, 144, 0, 0, 0, 0, 0, 0 >>,
    << 54, 184, 0, 0, 0, 0, 0, 0 >>, << 54, 180, 0, 0, 0, 0, 0, 0 >>,
    << 71, 239, 255, 255, 224, 0, 0, 0 >>, << 71, 240, 0, 0, 0, 0, 0, 0 >>,
    << 63, 240, 0, 0, 32, 0, 0, 0 >>, << 63, 240, 0, 0, 16, 0, 0, 0 >>,
    << 56, 16, 0, 0, 0, 0, 0, 0 >>, << 56, 15, 255, 255, 192, 0, 0, 0 >>,
    << 0, 0, 0, 0, 0, 0, 0, 1 >>, << 192, 9, 33, 251, 84, 68, 45, 24 >> }

PayloadLens == (0..MaxPayload) \cup {255, 256, 65535, 65536}
Fills == {65, 49}
Counts == {0, 1, 15, 16, 65535, 65536}

NoCall == [fn |-> "none", n |-> Zero64, s |-> <<>>, len |-> 0, etype |-> 0]

(* main of mp2json has not got past msgpack_unpack. *)
NoRun == [wrote |-> FALSE, crashed |-> FALSE, stale |-> {}, refreed |-> {}]

NoOp ==
  [fn |-> "none", L |-> NULL, idx |-> 0, name |-> <<>>, item |-> NULL, res |-> NULL,
   pre |-> EmptyHeap, n |-> 0]

(* ----------------------------- the program ----------------------------- *)

Init ==
  /\ pc = "idle"
  /\ heap = EmptyHeap
  /\ input = <<>>
  /\ cur = mp_cur_init(0)
  /\ stack = <<>>
  /\ target = NULL
  /\ cnt = 0
  /\ ret = 0
  /\ root = NULL
  /\ oob = FALSE
  /\ buf = mp_buf_new
  /\ packed = [ptr |-> NULL, bytes |-> <<>>, len |-> 0]
  /\ call = NoCall
  /\ orig = NULL
  /\ round = 0
  /\ top = NULL
  /\ mark = [n |-> 0, b |-> 0]
  /\ first = <<>>
  /\ starts = <<>>
  /\ op = NoOp
  /\ loose = {}
  /\ tool = NoRun
  /\ calls = <<>>
  /\ appends = <<>>

(* mp_unpack returning c.err where the code returns -c.err. *)
UnpackReturn_unsigned(c, n) ==
  IF c.err = MP_CUR_ERROR_EOF \/ c.err = MP_CUR_ERROR_BADFMT THEN c.err ELSE n

(* What mp_unpack returns once its loop stops with cursor c after n values. *)
UnpackReturn(c, n) ==
  IF c.err = MP_CUR_ERROR_EOF \/ c.err = MP_CUR_ERROR_BADFMT THEN 0 - c.err ELSE n

(* mp_unpack linking the fresh node through prev where the code sets next. *)
NewSibling_prev(H, L) ==
  LET H1 == mp_node_new(H)
  IN  [H1 EXCEPT !.nodes[L].prev = LastNode(H1)]

(* L->next = mp_node_new(): the heap with a fresh node linked after root L. *)
NewSibling(H, L) ==
  LET H1 == mp_node_new(H)
  IN  [H1 EXCEPT !.nodes[L].next = LastNode(H1)]

(* msgpack_unpack(&root, s, Len(s)) up to the first mp_decode_value call. *)
UnpackCall(s) ==
  LET H1 == mp_node_new(heap)
      r == LastNode(H1)
      c == mp_cur_init(Len(s))
  IN  /\ input' = Runs(s)
      /\ mark' = [n |-> Len(heap.nodes), b |-> Len(heap.blocks)]
      /\ root' = r
      /\ top' = r
      /\ cur' = c
      /\ cnt' = 0
      /\ stack' = <<>>
      /\ oob' = FALSE
      /\ IF c.left > 0
           THEN /\ heap' = H1
                /\ target' = r
                /\ starts' = << << r, c.p >> >>
                /\ pc' = "value"
                /\ UNCHANGED ret
           ELSE /\ ret' = UnpackReturn(c, 0)
                /\ heap' = IF UnpackReturn(c, 0) <= 0 THEN msgpack_free(H1, r) ELSE H1
                /\ target' = NULL
                /\ starts' = <<>>
                /\ pc' = "done"
      /\ calls' = <<>>
      /\ UNCHANGED << buf, packed, call, orig, op, loose, tool, appends >>

Unpack ==
  /\ pc = "idle"
  /\ \E s \in Inputs : UnpackCall(s) /\ first' = Runs(s)
  /\ round' = 0

(* The packed bytes are handed back to msgpack_unpack. *)
UnpackPacked ==
  /\ pc = "packed"
  /\ packed.ptr # NULL
  /\ UnpackCall(Bytes(packed.bytes))
  /\ round' = 1
  /\ UNCHANGED first

Dec(n) == IF n = SizeBig THEN SizeBig ELSE n - 1

ArrFrame(L, child, len) ==
  [kind |-> 1, L |-> L, child |-> child, key |-> NULL, len |-> len, st |-> 1]
HashFrame(L, child, key, len) ==
  [kind |-> 2, L |-> L, child |-> child, key |-> key, len |-> len, st |-> 1]

(* mp_decode_array up to its first mp_decode_value call. *)
mp_decode_array(H, L, len) ==
  LET H1 == [H EXCEPT !.nodes[L].type = MP_ARR]
      H2 == mp_node_new(H1)
      child == LastNode(H2)
  IN  IF len = 0 THEN [H |-> H1, push |-> FALSE, frame |-> ArrFrame(L, NULL, 0), next |-> NULL]
      ELSE [H |-> [H2 EXCEPT !.nodes[L].child = child], push |-> TRUE,
            frame |-> ArrFrame(L, child, len), next |-> child]

(* mp_decode_hash without L->child->key = key. *)
mp_decode_hash_nokey(H, L, len) ==
  LET H1 == [H EXCEPT !.nodes[L].type = MP_MAP]
      H2 == mp_node_new(H1)
      child == LastNode(H2)
      H3 == mp_node_new(H2)
      key == LastNode(H3)
  IN  IF len = 0 THEN [H |-> H1, push |-> FALSE, frame |-> HashFrame(L, NULL, NULL, 0), next |-> NULL]
      ELSE [H |-> [H3 EXCEPT !.nodes[L].child = child],
            push |-> TRUE, frame |-> HashFrame(L, child, key, len), next |-> key]

(* mp_decode_hash up to its first mp_decode_value call. *)
mp_decode_hash(H, L, len) ==
  LET H1 == [H EXCEPT !.nodes[L].type = MP_MAP]
      H2 == mp_node_new(H1)
      child == LastNode(H2)
      H3 == mp_node_new(H2)
      key == LastNode(H3)
  IN  IF len = 0 THEN [H |-> H1, push |-> FALSE, frame |-> HashFrame(L, NULL, NULL, 0), next |-> NULL]
      ELSE [H |-> [H3 EXCEPT !.nodes[L].child = child, !.nodes[child].key = key],
            push |-> TRUE, frame |-> HashFrame(L, child, key, len), next |-> key]

(* One call of mp_decode_value(target, c), up to the point where it either *)
(* returns or calls mp_decode_value for a container's first child or key.   *)
(* A read of c->p[i] past the end of the input is not defined: it yields    *)
(* some byte and the call goes on, or the process is killed at the read     *)
(* (the byte after the input need not be mapped), before mp_push_data.      *)
DecodeValue ==
  /\ pc = "value"
  /\ \E ub \in UBBytes :
     \E r \in {mp_decode_value(Bytes(input), cur, heap.nodes[target], ub)} :
       LET H1 == [heap EXCEPT !.nodes[target] = r.L]
           H2 == IF r.push
                   THEN mp_push_data(H1, target, r.pdata, Len(r.pdata), r.ptype)
                   ELSE H1
           k == IF r.call = 1 THEN mp_decode_array(H2, target, r.clen)
                ELSE mp_decode_hash(H2, target, r.clen)
           past == \E a \in r.acc : a[1] >= a[2]
       IN  /\ cur' = r.c
           /\ calls' = Append(calls, << target, cur.p >>)
           /\ oob' = (oob \/ past)
           /\ \/ IF r.call = 0
                   THEN /\ heap' = H2
                        /\ pc' = "ret"
                        /\ UNCHANGED << stack, target >>
                   ELSE /\ heap' = k.H
                        /\ IF k.push
                             THEN /\ stack' = Append(stack, k.frame)
                                  /\ target' = k.next
                                  /\ pc' = "value"
                             ELSE /\ pc' = "ret"
                                  /\ UNCHANGED << stack, target >>
              \/ /\ past
                 /\ heap' = H1
                 /\ pc' = "fault"
                 /\ UNCHANGED << stack, target >>
  /\ UNCHANGED << input, cnt, ret, root, buf, packed, call, orig, round, top, mark,
                  first, starts, op, loose, tool, appends >>

Pop(st) == SubSeq(st, 1, Len(st) - 1)
SetTop(st, f) == [st EXCEPT ![Len(st)] = f]

(* mp_decode_array going on to the next child whatever c->err is. *)
ArrayStops_lenonly(c, len1) == len1 = 0

(* if (c->err) return; and the end of while (len--), with len1 children     *)
(* still to decode.                                                         *)
ArrayStops(c, len1) == c.err # MP_CUR_ERROR_NONE \/ len1 = 0

(* mp_decode_array after one of its mp_decode_value calls returned. *)
ArrayNext ==
  /\ pc = "ret"
  /\ stack # <<>>
  /\ stack[Len(stack)].kind = 1
  /\ LET f == stack[Len(stack)]
         len1 == IF f.st = 1 THEN Dec(f.len) ELSE f.len
         H1 == mp_node_new(heap)
         n == LastNode(H1)
     IN  IF ArrayStops(cur, len1)
           THEN /\ stack' = Pop(stack)
                /\ pc' = "ret"
                /\ UNCHANGED << heap, target >>
           ELSE /\ heap' = [H1 EXCEPT !.nodes[f.child].next = n, !.nodes[n].prev = f.child]
                /\ stack' = SetTop(stack, [f EXCEPT !.child = n, !.len = Dec(len1), !.st = 2])
                /\ target' = n
                /\ pc' = "value"
  /\ UNCHANGED << input, cur, cnt, ret, root, oob, buf, packed, call, orig, round, top, mark,
                  first, starts, op, loose, tool, calls, appends >>

(* mp_decode_hash after one of its mp_decode_value calls returned:          *)
(* st 1 first key, 2 first value, 3 a later key, 4 a later value.           *)
HashNext ==
  /\ pc = "ret"
  /\ stack # <<>>
  /\ stack[Len(stack)].kind = 2
  /\ LET f == stack[Len(stack)]
         H0 == IF f.st = 4 THEN [heap EXCEPT !.nodes[f.child].key = f.key] ELSE heap
         len1 == IF f.st = 2 THEN Dec(f.len) ELSE f.len
         H1 == mp_node_new(H0)
         item == LastNode(H1)
         H2 == mp_node_new(H1)
         nkey == LastNode(H2)
     IN  IF cur.err # MP_CUR_ERROR_NONE
           THEN /\ stack' = Pop(stack)
                /\ pc' = "ret"
                /\ UNCHANGED << heap, target >>
           ELSE IF f.st = 1 \/ f.st = 3
           THEN /\ stack' = SetTop(stack, [f EXCEPT !.st = @ + 1])
                /\ target' = f.child
                /\ pc' = "value"
                /\ UNCHANGED heap
           ELSE IF len1 = 0
           THEN /\ heap' = H0
                /\ stack' = Pop(stack)
                /\ pc' = "ret"
                /\ UNCHANGED target
           ELSE /\ heap' = [H2 EXCEPT !.nodes[f.child].next = item,
                                      !.nodes[item].prev = f.child]
                /\ stack' = SetTop(stack, [f EXCEPT !.child = item, !.key = nkey,
                                                    !.len = Dec(len1), !.st = 3])
                /\ target' = nkey
                /\ pc' = "value"
  /\ UNCHANGED << input, cur, cnt, ret, root, oob, buf, packed, call, orig, round, top, mark,
                  first, starts, op, loose, tool, calls, appends >>

(* mp_unpack after the mp_decode_value call of its loop returned, and the   *)
(* tail of msgpack_unpack when the loop ends.                               *)
UnpackNext ==
  /\ pc = "ret"
  /\ stack = <<>>
  /\ LET H1 == NewSibling(heap, top)
         n == LastNode(H1)
     IN  IF cur.err = MP_CUR_ERROR_EOF \/ cur.err = MP_CUR_ERROR_BADFMT
           THEN /\ ret' = UnpackReturn(cur, cnt)
                /\ heap' = IF UnpackReturn(cur, cnt) <= 0 THEN msgpack_free(heap, root) ELSE heap
                /\ pc' = "done"
                /\ UNCHANGED << cnt, top, target, starts >>
           ELSE IF cur.left > 0
           THEN /\ heap' = H1
                /\ top' = n
                /\ target' = n
                /\ starts' = Append(starts, << n, cur.p >>)
                /\ cnt' = cnt + 1
                /\ pc' = "value"
                /\ UNCHANGED ret
           ELSE /\ cnt' = cnt + 1
                /\ ret' = UnpackReturn(cur, cnt + 1)
                /\ heap' = IF UnpackReturn(cur, cnt + 1) <= 0 THEN msgpack_free(heap, root) ELSE heap
                /\ pc' = "done"
                /\ UNCHANGED << top, target, starts >>
  /\ UNCHANGED << input, cur, stack, root, oob, buf, packed, call, orig, round, mark, first,
                  op, loose, tool, calls, appends >>

(* msgpack_pack(root, &len) on a tree that unpack built or a builder made. *)
Pack ==
  /\ \/ pc = "done" /\ ret > 0 /\ round = 0
     \/ pc = "built"
  /\ \E r \in {msgpack_pack(heap, root, packed.len)} :
       /\ buf' = [r.buf EXCEPT !.b = Runs(@)]
       /\ packed' = [ptr |-> r.ptr, bytes |-> Runs(r.bytes), len |-> r.len]
  /\ orig' = root
  /\ pc' = "packed"
  /\ UNCHANGED << heap, input, cur, stack, target, cnt, ret, root, oob, call, round, top, mark,
                  first, starts, op, loose, tool, calls, appends >>

(* ------------------------------- builders ------------------------------ *)

(* A builder returned node r of heap H. *)
Built(H, fn, n, s, len) ==
  /\ heap' = H
  /\ root' = LastNode(H)
  /\ call' = [fn |-> fn, n |-> n, s |-> Runs(s), len |-> len, etype |-> 0]
  /\ pc' = "built"
  /\ UNCHANGED << input, cur, stack, target, cnt, ret, oob, buf, packed, orig, round, top, mark,
                  first, starts, op, loose, tool, calls, appends >>

SetNew(H, type, number) ==
  [H EXCEPT !.nodes[LastNode(H)] = [@ EXCEPT !.type = type, !.number = number]]

msgpack_create_nil(H) == SetNew(mp_node_new(H), MP_NIL, Zero64)
msgpack_create_true(H) == SetNew(mp_node_new(H), MP_BOOL, U64(1))
msgpack_create_false(H) == SetNew(mp_node_new(H), MP_BOOL, U64(0))
msgpack_create_bool(H, b) == SetNew(mp_node_new(H), MP_BOOL, U64(IF b THEN 1 ELSE 0))
msgpack_create_integer(H, num) == SetNew(mp_node_new(H), MP_INT, num)
msgpack_create_number(H, num) == SetNew(mp_node_new(H), MP_FLT, num)
msgpack_create_array(H) == SetNew(mp_node_new(H), MP_ARR, Zero64)
msgpack_create_map(H) == SetNew(mp_node_new(H), MP_MAP, Zero64)

(* The number of bytes before the first zero byte; the string s is followed *)
(* by its terminator.                                                       *)
strlen(s) ==
  LET zeros == {i \in 1..Len(s) : s[i] = 0}
  IN  IF zeros = {} THEN Len(s)
      ELSE (CHOOSE i \in zeros : \A j \in zeros : i <= j) - 1

msgpack_create_string(H, string) ==
  LET H1 == mp_node_new(H)
  IN  mp_push_data(H1, LastNode(H1), string, strlen(string), MP_STR)

msgpack_create_blob(H, blob, len) ==
  LET H1 == mp_node_new(H)
  IN  mp_push_data(H1, LastNode(H1), blob, len, MP_BLOB)

CreateNil == pc = "idle" /\ Built(msgpack_create_nil(heap), "nil", Zero64, <<>>, 0)
CreateTrue == pc = "idle" /\ Built(msgpack_create_true(heap), "true", Zero64, <<>>, 0)
CreateFalse == pc = "idle" /\ Built(msgpack_create_false(heap), "false", Zero64, <<>>, 0)
CreateBool ==
  /\ pc = "idle"
  /\ \E b \in BOOLEAN :
       Built(msgpack_create_bool(heap, b), "bool", U64(IF b THEN 1 ELSE 0), <<>>, 0)
CreateInteger ==
  /\ pc = "idle"
  /\ \E n \in IntSamples : Built(msgpack_create_integer(heap, n), "integer", n, <<>>, 0)
CreateNumber ==
  /\ pc = "idle"
  /\ \E d \in DoubleSamples : Built(msgpack_create_number(heap, d), "number", d, <<>>, 0)
CreateString ==
  /\ pc = "idle"
  /\ \E len \in PayloadLens, f \in Fills :
       Built(msgpack_create_string(heap, Fill(len, f)), "string", Zero64, Fill(len, f), len)
CreateBlob ==
  /\ pc = "idle"
  /\ \E len \in PayloadLens, f \in Fills \cup {0} :
       Built(msgpack_create_blob(heap, Fill(len, f), len), "blob", Zero64, Fill(len, f), len)
CreateArray == pc = "idle" /\ Built(msgpack_create_array(heap), "array", Zero64, <<>>, 0)
CreateMap == pc = "idle" /\ Built(msgpack_create_map(heap), "map", Zero64, <<>>, 0)

(* --------------------- the encoders called directly -------------------- *)

Encoded(b, fn, n, s, len, etype) ==
  /\ buf' = [b EXCEPT !.b = Runs(@)]
  /\ call' = [fn |-> fn, n |-> n, s |-> Runs(s), len |-> len, etype |-> etype]
  /\ pc' = "enc"
  /\ UNCHANGED << heap, input, cur, stack, target, cnt, ret, root, oob, packed, orig,
                  round, top, mark, first, starts, op, loose, tool, calls, appends >>

EncodeInt ==
  /\ pc = "idle"
  /\ \E n \in IntSamples : Encoded(mp_encode_int(mp_buf_new, n), "int", n, <<>>, 0, 0)

EncodeDouble ==
  /\ pc = "idle"
  /\ \E d \in DoubleSamples : Encoded(mp_encode_double(mp_buf_new, d), "double", d, <<>>, 0, 0)

EncodeBytes ==
  /\ pc = "idle"
  /\ \E len \in PayloadLens, f \in Fills :
       Encoded(mp_encode_bytes(mp_buf_new, Fill(len, f), len), "bytes", Zero64,
               Fill(len, f), len, 0)

EncodeBlob ==
  /\ pc = "idle"
  /\ \E len \in PayloadLens, f \in Fills :
       Encoded(mp_encode_blob(mp_buf_new, Fill(len, f), len), "blob", Zero64,
               Fill(len, f), len, 0)

EncodeExt ==
  /\ pc = "idle"
  /\ \E len \in PayloadLens, f \in Fills, e \in {0, 7, 255} :
       Encoded(mp_encode_ext(mp_buf_new, e, Fill(len, f), len), "ext", Zero64,
               Fill(len, f), len, e)

EncodeArray ==
  /\ pc = "idle"
  /\ \E n \in Counts : Encoded(mp_encode_array(mp_buf_new, n), "array", Zero64, <<>>, n, 0)

EncodeMap ==
  /\ pc = "idle"
  /\ \E n \in Counts : Encoded(mp_encode_map(mp_buf_new, n), "map", Zero64, <<>>, n, 0)

(* --------------------------- tree operations --------------------------- *)

tolower(b) == IF b >= 65 /\ b <= 90 THEN b + 32 ELSE b

(* strcasecmp(a, b) on two terminated strings: 0 when they are equal       *)
(* ignoring case, else the difference of the first bytes that differ.      *)
strcasecmp(a, b) ==
  LET x == SubSeq(a, 1, strlen(a)) \o << 0 >>
      y == SubSeq(b, 1, strlen(b)) \o << 0 >>
      m == IF Len(x) < Len(y) THEN Len(x) ELSE Len(y)
      d == {i \in 1..m : tolower(x[i]) # tolower(y[i])}
  IN  IF d = {} THEN 0
      ELSE LET i == CHOOSE j \in d : \A k \in d : j <= k
           IN  tolower(x[i]) - tolower(y[i])

RECURSIVE IndexWalk(_, _, _)
(* while (c && idx > 0) c = c->next, idx--; *)
IndexWalk(H, c, idx) ==
  IF c # NULL /\ idx > 0 THEN IndexWalk(H, H.nodes[c].next, idx - 1) ELSE c

(* msgpack_get_array_item refusing a negative idx. *)
msgpack_get_array_item_checked(H, L, idx) ==
  IF idx < 0 THEN NULL ELSE IndexWalk(H, H.nodes[L].child, idx)

msgpack_get_array_item(H, L, idx) == IndexWalk(H, H.nodes[L].child, idx)

RECURSIVE NameWalk(_, _, _, _)
(* The loop of the lookups by name: while c, c->key, c->key->type is not    *)
(* MP_STR and strcasecmp(c->key->data, name) is not 0: i++, c = c->next.    *)
(* The result: where it stops (c, i), or fault when strcasecmp is handed a  *)
(* null key->data, which the process does not survive.                      *)
NameWalk(H, c, name, i) ==
  IF c = NULL \/ H.nodes[c].key = NULL \/ H.nodes[H.nodes[c].key].type = MP_STR
    THEN [c |-> c, i |-> i, fault |-> FALSE]
  ELSE IF H.nodes[H.nodes[c].key].data = NULL
    THEN [c |-> c, i |-> i, fault |-> TRUE]
  ELSE IF strcasecmp(DataOf(H, H.nodes[c].key), name) # 0
    THEN NameWalk(H, H.nodes[c].next, name, i + 1)
  ELSE [c |-> c, i |-> i, fault |-> FALSE]

(* The results below are records: H the heap after the call, res what it    *)
(* returned, fault whether it dereferenced a null pointer.                  *)
TRes(H, res, fault) == [H |-> H, res |-> res, fault |-> fault]

msgpack_get_map_item(H, map, name) ==
  LET w == NameWalk(H, H.nodes[map].child, name, 0)
  IN  TRes(H, w.c, w.fault)

msgpack_detach_item_from_array_keephead(H, L, idx) ==
  LET c == IndexWalk(H, H.nodes[L].child, idx)
      H1 == IF H.nodes[c].prev # NULL
              THEN [H EXCEPT !.nodes[H.nodes[c].prev].next = H.nodes[c].next]
              ELSE H
      H2 == IF H1.nodes[c].next # NULL
              THEN [H1 EXCEPT !.nodes[H1.nodes[c].next].prev = H1.nodes[c].prev]
              ELSE H1
  IN  IF c = NULL THEN TRes(H, NULL, FALSE)
      ELSE TRes([H2 EXCEPT !.nodes[c].prev = NULL, !.nodes[c].next = NULL], c, FALSE)

msgpack_detach_item_from_array(H, L, idx) ==
  LET c == IndexWalk(H, H.nodes[L].child, idx)
      H1 == IF H.nodes[c].prev # NULL
              THEN [H EXCEPT !.nodes[H.nodes[c].prev].next = H.nodes[c].next]
              ELSE H
      H2 == IF H1.nodes[c].next # NULL
              THEN [H1 EXCEPT !.nodes[H1.nodes[c].next].prev = H1.nodes[c].prev]
              ELSE H1
      H3 == IF c = H2.nodes[L].child
              THEN [H2 EXCEPT !.nodes[L].child = H2.nodes[c].next]
              ELSE H2
  IN  IF c = NULL THEN TRes(H, NULL, FALSE)
      ELSE TRes([H3 EXCEPT !.nodes[c].prev = NULL, !.nodes[c].next = NULL], c, FALSE)

msgpack_delete_item_from_array(H, L, idx) ==
  LET d == msgpack_detach_item_from_array(H, L, idx)
  IN  TRes(msgpack_free(d.H, d.res), NULL, FALSE)

msgpack_detach_item_from_map(H, L, name) ==
  LET w == NameWalk(H, H.nodes[L].child, name, 0)
  IN  IF w.fault THEN TRes(H, NULL, TRUE)
      ELSE IF w.c # NULL THEN msgpack_detach_item_from_array(H, L, w.i)
      ELSE TRes(H, NULL, FALSE)

msgpack_delete_item_from_map(H, L, name) ==
  LET d == msgpack_detach_item_from_map(H, L, name)
  IN  IF d.fault THEN d ELSE TRes(msgpack_free(d.H, d.res), NULL, FALSE)

msgpack_replace_item_in_array_chainfree(H, L, idx, newitem) ==
  LET c == IndexWalk(H, H.nodes[L].child, idx)
      H1 == [H EXCEPT !.nodes[newitem].next = H.nodes[c].next,
                      !.nodes[newitem].prev = H.nodes[c].prev]
      H2 == IF H1.nodes[newitem].next # NULL
              THEN [H1 EXCEPT !.nodes[H1.nodes[newitem].next].prev = newitem]
              ELSE H1
      H3 == IF c = H2.nodes[L].child
              THEN [H2 EXCEPT !.nodes[L].child = newitem]
              ELSE [H2 EXCEPT !.nodes[H2.nodes[newitem].prev].next = newitem]
  IN  IF c = NULL THEN TRes(H, NULL, FALSE)
      ELSE IF c # H2.nodes[L].child /\ H2.nodes[newitem].prev = NULL
        THEN TRes(H2, NULL, TRUE)
      ELSE TRes(msgpack_free(H3, c), NULL, FALSE)

msgpack_replace_item_in_array(H, L, idx, newitem) ==
  LET c == IndexWalk(H, H.nodes[L].child, idx)
      H1 == [H EXCEPT !.nodes[newitem].next = H.nodes[c].next,
                      !.nodes[newitem].prev = H.nodes[c].prev]
      H2 == IF H1.nodes[newitem].next # NULL
              THEN [H1 EXCEPT !.nodes[H1.nodes[newitem].next].prev = newitem]
              ELSE H1
      H3 == IF c = H2.nodes[L].child
              THEN [H2 EXCEPT !.nodes[L].child = newitem]
              ELSE [H2 EXCEPT !.nodes[H2.nodes[newitem].prev].next = newitem]
      H4 == [H3 EXCEPT !.nodes[c].next = NULL, !.nodes[c].prev = NULL]
  IN  IF c = NULL THEN TRes(H, NULL, FALSE)
      ELSE IF c # H2.nodes[L].child /\ H2.nodes[newitem].prev = NULL
        THEN TRes(H2, NULL, TRUE)
      ELSE TRes(msgpack_free(H4, c), NULL, FALSE)

msgpack_replace_item_in_map(H, L, name, newitem) ==
  LET w == NameWalk(H, H.nodes[L].child, name, 0)
      H1 == msgpack_create_string(H, name)
      H2 == [H1 EXCEPT !.nodes[newitem].key = LastNode(H1)]
  IN  IF w.fault THEN TRes(H, NULL, TRUE)
      ELSE IF w.c # NULL THEN msgpack_replace_item_in_array(H2, L, w.i, newitem)
      ELSE TRes(H, NULL, FALSE)

RECURSIVE msgpack_duplicate(_, _, _)
RECURSIVE DupChildren(_, _, _, _)

(* The while loop of msgpack_duplicate over the children of item, at cptr,  *)
(* nptr the last child linked so far.                                       *)
DupChildren(H, newitem, cptr, nptr) ==
  IF cptr = NULL THEN H
  ELSE LET d == msgpack_duplicate(H, cptr, 1)
           H1 == IF nptr # NULL
                   THEN [d.H EXCEPT !.nodes[nptr].next = d.res, !.nodes[d.res].prev = nptr]
                   ELSE [d.H EXCEPT !.nodes[newitem].child = d.res]
       IN  DupChildren(H1, newitem, H1.nodes[cptr].next, d.res)

msgpack_duplicate(H, item, recurse) ==
  IF item = NULL THEN TRes(H, NULL, FALSE)
  ELSE LET H1 == mp_node_new(H)
           newitem == LastNode(H1)
           I == H.nodes[item]
           H2 == [H1 EXCEPT !.nodes[newitem].type = I.type,
                            !.nodes[newitem].number =
                              IF I.type = MP_INT \/ I.type = MP_FLT THEN I.number ELSE @]
           H3 == IF I.data # NULL
                   THEN mp_push_data(H2, item, DataOf(H2, item), SizeOf64(I.number), I.type)
                   ELSE H2
           k == msgpack_duplicate(H3, I.key, 0)
           H4 == IF I.key # NULL THEN [k.H EXCEPT !.nodes[newitem].key = k.res] ELSE H3
       IN  IF recurse = 0 THEN TRes(H4, newitem, FALSE)
           ELSE TRes(DupChildren(H4, newitem, H4.nodes[item].child, NULL), newitem, FALSE)

(* The trees the caller holds: the one msgpack_unpack gave and the loose ones. *)
TreeNodes == UNION {FreeWalk(heap, r) : r \in {root} \cup loose}

Containers == {n \in TreeNodes : heap.nodes[n].type \in {MP_ARR, MP_MAP}}

(* The positions a caller asks for: each child, one past the last and one   *)
(* before the first (idx is an int).                                        *)
Indexes(L) == (0 - 1)..msgpack_get_array_size(heap, L)

Names == {<< 97 >>, << 98 >>, << 122 >>}

(* The inputs whose trees the operations are applied to. *)
TreeInputs ==
  { << 130, 161, 97, 1, 161, 98, 194 >>, << 147, 1, 2, 3 >>,
    << 130, 161, 65, 1, 161, 97, 2 >>, << 130, 196, 1, 97, 1, 196, 1, 98, 2 >>,
    << 129, 1, 2 >>, << 146, 145, 195, 161, 120 >>, << 195 >>, << 212, 7, 42 >>,
    << 192, 192 >>, << 129, 161, 97, 145, 1 >> }

UnpackTree ==
  /\ pc = "idle"
  /\ \E s \in TreeInputs : UnpackCall(s) /\ first' = Runs(s)
  /\ round' = 0

CanEdit ==
  /\ (pc = "done" /\ ret > 0 /\ round = 0) \/ pc = "tree"
  /\ op.n < MaxOps

(* A tree operation returned r (or the process died in it); lo is what the  *)
(* caller holds afterwards, pre the heap the operation started from.        *)
TreeDone(fn, L, idx, name, item, pre, r, lo) ==
  /\ op' = [fn |-> fn, L |-> L, idx |-> idx, name |-> name, item |-> item,
            res |-> r.res, pre |-> pre, n |-> op.n + 1]
  /\ heap' = r.H
  /\ pc' = IF r.fault THEN "fault" ELSE "tree"
  /\ loose' = IF r.fault THEN loose ELSE lo
  /\ UNCHANGED << input, cur, stack, target, cnt, ret, root, oob, buf, packed, call, orig,
                  round, top, mark, first, starts, tool, calls, appends >>

GetMapItem ==
  /\ CanEdit
  /\ \E L \in Containers, name \in Names :
       TreeDone("get_map_item", L, 0, name, NULL, heap,
                msgpack_get_map_item(heap, L, name), loose)

GetArraySize ==
  /\ CanEdit
  /\ \E L \in Containers :
       TreeDone("get_array_size", L, 0, <<>>, NULL, heap,
                TRes(heap, msgpack_get_array_size(heap, L), FALSE), loose)

GetArrayItem ==
  /\ CanEdit
  /\ \E L \in Containers : \E idx \in Indexes(L) :
       TreeDone("get_array_item", L, idx, <<>>, NULL, heap,
                TRes(heap, msgpack_get_array_item(heap, L, idx), FALSE), loose)

DetachFromArray ==
  /\ CanEdit
  /\ \E L \in Containers : \E idx \in Indexes(L) :
       LET r == msgpack_detach_item_from_array(heap, L, idx)
       IN  TreeDone("detach_item_from_array", L, idx, <<>>, NULL, heap, r,
                    (loose \cup {r.res}) \ {NULL})

DeleteFromArray ==
  /\ CanEdit
  /\ \E L \in Containers : \E idx \in Indexes(L) :
       TreeDone("delete_item_from_array", L, idx, <<>>, NULL, heap,
                msgpack_delete_item_from_array(heap, L, idx), loose)

DetachFromMap ==
  /\ CanEdit
  /\ \E L \in Containers, name \in Names :
       LET r == msgpack_detach_item_from_map(heap, L, name)
       IN  TreeDone("detach_item_from_map", L, 0, name, NULL, heap, r,
                    (loose \cup {r.res}) \ {NULL})

DeleteFromMap ==
  /\ CanEdit
  /\ \E L \in Containers, name \in Names :
       TreeDone("delete_item_from_map", L, 0, name, NULL, heap,
                msgpack_delete_item_from_map(heap, L, name), loose)

(* The heaps a caller can hand a newitem from: a node it holds, or one      *)
(* fresh from msgpack_create_integer(5).  Each is << heap, newitem >>.      *)
NewItems(L) ==
  {<< heap, n >> : n \in {m \in loose : L \notin FreeWalk(heap, m)}}
  \cup {<< msgpack_create_integer(heap, S64(5)), Len(heap.nodes) + 1 >>}

(* What the caller holds after a replace: newitem stays with it when the    *)
(* call did not link it in.                                                 *)
AfterReplace(H, L, newitem) ==
  IF newitem \in FreeWalk(H, H.nodes[L].child) THEN loose \ {newitem}
  ELSE loose \cup {newitem}

ReplaceInArray ==
  /\ CanEdit
  /\ \E L \in Containers : \E idx \in Indexes(L), hn \in NewItems(L) :
       LET r == msgpack_replace_item_in_array(hn[1], L, idx, hn[2])
       IN  TreeDone("replace_item_in_array", L, idx, <<>>, hn[2], hn[1], r,
                    AfterReplace(r.H, L, hn[2]))

ReplaceInMap ==
  /\ CanEdit
  /\ \E L \in Containers, name \in Names : \E hn \in NewItems(L) :
       LET r == msgpack_replace_item_in_map(hn[1], L, name, hn[2])
       IN  TreeDone("replace_item_in_map", L, 0, name, hn[2], hn[1], r,
                    AfterReplace(r.H, L, hn[2]))

Duplicate ==
  /\ CanEdit
  /\ \E item \in FreeWalk(heap, root), recurse \in {0, 1} :
       LET r == msgpack_duplicate(heap, item, recurse)
       IN  TreeDone("duplicate", NULL, recurse, <<>>, item, heap, r, loose \cup {r.res})

(* msgpack_pack(L, &len) on a node of an edited tree. *)
PackTree ==
  /\ pc = "tree"
  /\ \E L \in {root} \cup Containers :
       /\ \E r \in {msgpack_pack(heap, L, packed.len)} :
            /\ buf' = [r.buf EXCEPT !.b = Runs(@)]
            /\ packed' = [ptr |-> r.ptr, bytes |-> Runs(r.bytes), len |-> r.len]
       /\ orig' = L
  /\ pc' = "packed"
  /\ UNCHANGED << heap, input, cur, stack, target, cnt, ret, root, oob, call, round, top, mark,
                  first, starts, op, loose, tool, calls, appends >>

(* ------------------------------ mp2json -------------------------------- *)

RECURSIVE FreeOrder(_, _)
(* The nodes msgpack_free(c) releases, in the order it releases them: for   *)
(* each node of the chain its key's nodes, its child's nodes, the node.     *)
FreeOrder(H, c) ==
  IF c = NULL THEN <<>>
  ELSE FreeOrder(H, H.nodes[c].key) \o FreeOrder(H, H.nodes[c].child) \o << c >>
         \o FreeOrder(H, H.nodes[c].next)

RECURSIVE to_json(_, _)
RECURSIVE ToJsonChain(_, _)
(* The while (cptr) loop of to_json over the chain from cptr. *)
ToJsonChain(H, cptr) ==
  IF cptr = NULL THEN <<>> ELSE to_json(H, cptr) \o ToJsonChain(H, H.nodes[cptr].next)

(* to_json(item, 1): the nodes it is called on, in the order of the calls. *)
to_json(H, item) ==
  IF item = NULL THEN <<>> ELSE << item >> \o ToJsonChain(H, H.nodes[item].child)

(* strdup of a key's data that is null: to_json does not return. *)
ToJsonFaults(H, item) ==
  \E i \in DOMAIN to_json(H, item) :
    LET n == to_json(H, item)[i]
    IN  H.nodes[n].key # NULL /\ H.nodes[H.nodes[n].key].data = NULL

RECURSIVE ReadLoop(_, _, _, _)
(* The while (!feof(stdin)) loop of main from one pass on, as the bytes it  *)
(* writes to the stream: rest is what is left on stdin, tmp what the block  *)
(* holds, len the count so far, past the bytes that lie in memory right     *)
(* after the block.  A pass reads up to 4096 bytes over the start of tmp,   *)
(* adds their number to len and writes len bytes from tmp on: the block,    *)
(* and for the rest of len what lies after it.  The pass whose fread comes  *)
(* back short is the last.                                                  *)
ReadLoop(rest, tmp, len, past) ==
  LET n == IF Len(rest) < 4096 THEN Len(rest) ELSE 4096
      tmp1 == SubSeq(rest, 1, n) \o SubSeq(tmp, n + 1, Len(tmp))
      len1 == len + n
      out == IF len1 <= Len(tmp1) THEN SubSeq(tmp1, 1, len1)
             ELSE tmp1 \o SubSeq(past, 1, len1 - Len(tmp1))
  IN  IF n < 4096 THEN out
      ELSE out \o ReadLoop(SubSeq(rest, n + 1, Len(rest)), tmp1, len1, past)

(* main up to its call of msgpack_unpack(&mp, buf, len), buf being what the *)
(* read loop wrote.  stdin is an input of at most MaxStdin bytes: one of    *)
(* less than a block, or one of 4096 and one of 4097 bytes that hold a Bin  *)
(* header for what the loop makes of them.  On the input of 4097 bytes the  *)
(* last write reads one byte past tmp, which main never wrote: it is any    *)
(* byte.                                                                    *)
ReadStdin ==
  /\ pc = "idle"
  /\ \E s \in {i \in Inputs \cup {<< 197, 15, 253 >> \o Fill(4093, 65),
                                  << 197, 31, 254 >> \o Fill(4093, 65) \o << 197 >>} :
                 Len(i) <= MaxStdin} :
     \E past \in {<< b >> : b \in 0..255} :
     \E b \in {ReadLoop(s, <<>>, 0, past)} :
       UnpackCall(b) /\ first' = Runs(b)
  /\ round' = 0

(* main after msgpack_unpack returned cnt: mp still points at the root      *)
(* node.  When that node was released, to_json reads released nodes and the *)
(* second msgpack_free releases them again, which is not defined: the tool  *)
(* gets through some first part of the nodes to_json visits (stale) and of  *)
(* the nodes msgpack_free releases, or of mp alone (refreed), may or may    *)
(* not write, and is killed on the way or returns, mp released twice.       *)
Mp2Json ==
  /\ pc = "done"
  /\ round = 0
  /\ LET H0 == msgpack_create_array(heap)
         H1 == IF ret > 1 THEN [H0 EXCEPT !.nodes[LastNode(H0)].child = root] ELSE heap
         mp == IF ret > 1 THEN LastNode(H0) ELSE root
         rd == to_json(H1, mp)
         fr == FreeOrder(H1, mp)
     IN  IF mp \in heap.freedN
           THEN /\ \E w \in BOOLEAN, c \in BOOLEAN, i \in 1..Len(rd), j \in 0..Len(fr) + 1 :
                     LET f == IF j > Len(fr) THEN {mp} ELSE {fr[k] : k \in 1..j}
                     IN  /\ (~c => mp \in f)
                         /\ tool' = [wrote |-> w, crashed |-> c,
                                     stale |-> {rd[k] : k \in 1..i}, refreed |-> f]
                /\ UNCHANGED << heap, root >>
           ELSE /\ tool' = [wrote |-> ~ToJsonFaults(H1, mp), crashed |-> ToJsonFaults(H1, mp),
                            stale |-> {}, refreed |-> {}]
                /\ heap' = IF ToJsonFaults(H1, mp) THEN H1 ELSE msgpack_free(H1, mp)
                /\ root' = mp
  /\ pc' = "exit"
  /\ UNCHANGED << input, cur, stack, target, cnt, ret, oob, buf, packed, call, orig, round,
                  top, mark, first, starts, op, loose, calls, appends >>

(* ------------------------- reading a tree back ------------------------- *)

(* The payload of node n: the first number.intval bytes of its block. *)
PayloadOf(H, n) ==
  IF H.nodes[n].data = NULL THEN <<>>
  ELSE SubSeq(Bytes(H.blocks[H.nodes[n].data]), 1, SizeOf64(H.nodes[n].number))

RECURSIVE TreeOf(_, _)
RECURSIVE ChainTrees(_, _)

(* The trees of the sibling chain that starts at c, in next order. *)
ChainTrees(H, c) ==
  IF c = NULL THEN <<>>
  ELSE << TreeOf(H, c) >> \o ChainTrees(H, H.nodes[c].next)

(* Node n with everything it owns, as a value: type, etype, number, whether *)
(* it has a payload, the payload, its key (none or one tree), its children. *)
TreeOf(H, n) ==
  LET N == H.nodes[n]
  IN  << N.type, N.etype, N.number, IF N.data = NULL THEN 0 ELSE 1, PayloadOf(H, n),
         IF N.key = NULL THEN <<>> ELSE << TreeOf(H, N.key) >>,
         ChainTrees(H, N.child) >>

Next ==
  \/ Unpack \/ UnpackPacked \/ DecodeValue \/ ArrayNext \/ HashNext \/ UnpackNext
  \/ Pack
  \/ CreateNil \/ CreateTrue \/ CreateFalse \/ CreateBool \/ CreateInteger
  \/ CreateNumber \/ CreateString \/ CreateBlob \/ CreateArray \/ CreateMap
  \/ EncodeInt \/ EncodeDouble \/ EncodeBytes \/ EncodeBlob \/ EncodeExt
  \/ EncodeArray \/ EncodeMap

Spec == Init /\ [][Next]_vars

(* The tree operations, applied to trees msgpack_unpack produced. *)
TreeNext ==
  \/ UnpackTree \/ DecodeValue \/ ArrayNext \/ HashNext \/ UnpackNext
  \/ GetArraySize \/ GetArrayItem \/ GetMapItem
  \/ DetachFromArray \/ DeleteFromArray \/ DetachFromMap \/ DeleteFromMap
  \/ ReplaceInArray \/ ReplaceInMap \/ Duplicate \/ PackTree

TreeSpec == Init /\ [][TreeNext]_vars

(* mp2json: standard input through msgpack_unpack to standard output. *)
ToolNext ==
  \/ ReadStdin \/ DecodeValue \/ ArrayNext \/ HashNext \/ UnpackNext \/ Mp2Json

ToolSpec == Init /\ [][ToolNext]_vars

(* msgpack_unpack(&root, s, Len(s)) on an input of at most MaxRunInput bytes. *)
UnpackShort ==
  /\ pc = "idle"
  /\ \E s \in {i \in Inputs : Len(i) <= MaxRunInput} : UnpackCall(s) /\ first' = Runs(s)
  /\ round' = 0

(* msgpack_unpack alone, run to its return: the caller does nothing but     *)
(* wait, so every step of the call that can be taken is taken.              *)
UnpackRunNext ==
  \/ UnpackShort \/ DecodeValue \/ ArrayNext \/ HashNext \/ UnpackNext

UnpackRunSpec ==
  /\ Init
  /\ [][UnpackRunNext]_vars
  /\ WF_vars(DecodeValue)
  /\ WF_vars(ArrayNext)
  /\ WF_vars(HashNext)
  /\ WF_vars(UnpackNext)

(* ---------------------------- the buffer alone ------------------------- *)

(* mp_buf_new() *)
BufNew ==
  /\ pc = "idle"
  /\ buf' = mp_buf_new
  /\ appends' = <<>>
  /\ pc' = "buf"
  /\ UNCHANGED << heap, input, cur, stack, target, cnt, ret, root, oob, packed, call, orig,
                  round, top, mark, first, starts, op, loose, tool, calls >>

(* mp_buf_append(buf, s, len) with len bytes of s, none included; s is a    *)
(* header or a payload of a few lengths.                                    *)
BufAppend ==
  /\ pc = "buf"
  /\ Len(appends) < MaxAppends
  /\ \E s \in {<< 192 >>, << 205, 1, 0 >>, << 97, 98, 99, 100, 101, 102, 103, 104, 105 >>} :
     \E len \in {0, 1, Len(s)} :
       /\ buf' = [mp_buf_append([buf EXCEPT !.b = Bytes(@)], s, len) EXCEPT !.b = Runs(@)]
       /\ appends' = Append(appends, SubSeq(s, 1, len))
  /\ UNCHANGED << pc, heap, input, cur, stack, target, cnt, ret, root, oob, packed, call,
                  orig, round, top, mark, first, starts, op, loose, tool, calls >>

(* mp_buf_free(buf) *)
BufFree ==
  /\ pc = "buf"
  /\ buf' = [mp_buf_free([buf EXCEPT !.b = Bytes(@)]) EXCEPT !.b = Runs(@)]
  /\ pc' = "idle"
  /\ UNCHANGED << heap, input, cur, stack, target, cnt, ret, root, oob, packed, call, orig,
                  round, top, mark, first, starts, op, loose, tool, calls, appends >>

BufNext == BufNew \/ BufAppend \/ BufFree

BufSpec == Init /\ [][BufNext]_vars

(* ------------------------------ properties ----------------------------- *)

(* Structural equality of two trees as TreeOf gives them: the same kind,   *)
(* integer value, payload bytes, etype of an Ext, keys and children in      *)
(* order.  The number of a Float or Bool is not compared.                   *)
RECURSIVE SameShape(_, _)
SameShape(t, u) ==
  /\ t[1] = u[1]
  /\ (t[1] = MP_INT => t[3] = u[3])
  /\ (t[1] \in {MP_STR, MP_BLOB, MP_EXT} => t[5] = u[5])
  /\ (t[1] = MP_EXT => t[2] = u[2])
  /\ Len(t[6]) = Len(u[6])
  /\ \A i \in 1..Len(t[6]) : SameShape(t[6][i], u[6][i])
  /\ Len(t[7]) = Len(u[7])
  /\ \A i \in 1..Len(t[7]) : SameShape(t[7][i], u[7][i])

(* C1: for every tree T that a builder made or msgpack_unpack produced,     *)
(* msgpack_unpack of msgpack_pack(T) succeeds and yields a tree             *)
(* structurally equal to T, in every length class.                          *)
C1_RoundTrip ==
  (pc = "done" /\ round = 1) =>
    /\ ret >= 1
    /\ SameShape(TreeOf(heap, root), TreeOf(heap, orig))

RECURSIVE MsgEnd(_, _)
RECURSIVE MsgEndN(_, _, _, _)

(* The index just past n items that start at B[j], 0 when they are not all  *)
(* there; an item is one value (per = 1) or a key and a value (per = 2).    *)
MsgEndN(B, j, n, per) ==
  IF n = 0 THEN j
  ELSE LET e1 == MsgEnd(B, j)
           e == IF per = 1 \/ e1 = 0 THEN e1 ELSE MsgEnd(B, e1)
       IN  IF e = 0 THEN 0 ELSE MsgEndN(B, e, n - 1, per)

(* The index just past the MessagePack value that starts at B[i], by the    *)
(* format's definition (ext 8/16/32: length, then type, then data); 0 when  *)
(* no complete value starts there.                                          *)
MsgEnd(B, i) ==
  IF i > Len(B) THEN 0
  ELSE
  LET h == B[i]
      Has(k) == i + k <= Len(B)
      Data(hw, l) == IF l <= Len(B) - (i + hw - 1) THEN i + hw + l ELSE 0
      L8 == B[i + 1]
      L16 == B[i + 1] * 256 + B[i + 2]
      L32 == IF B[i + 1] >= 128 THEN SizeBig
             ELSE B[i + 1] * 16777216 + B[i + 2] * 65536 + B[i + 3] * 256 + B[i + 4]
  IN  CASE h <= 127 \/ h >= 224 \/ h = 192 \/ h = 194 \/ h = 195 -> i + 1
        [] h >= 128 /\ h <= 143 -> MsgEndN(B, i + 1, h - 128, 2)
        [] h >= 144 /\ h <= 159 -> MsgEndN(B, i + 1, h - 144, 1)
        [] h >= 160 /\ h <= 191 -> Data(1, h - 160)
        [] h = 193 -> 0
        [] h = 196 \/ h = 217 -> IF Has(1) THEN Data(2, L8) ELSE 0
        [] h = 197 \/ h = 218 -> IF Has(2) THEN Data(3, L16) ELSE 0
        [] h = 198 \/ h = 219 -> IF Has(4) THEN Data(5, L32) ELSE 0
        [] h = 199 -> IF Has(2) THEN Data(3, L8) ELSE 0
        [] h = 200 -> IF Has(3) THEN Data(4, L16) ELSE 0
        [] h = 201 -> IF Has(5) THEN Data(6, L32) ELSE 0
        [] h = 202 \/ h = 206 \/ h = 210 -> Data(1, 4)
        [] h = 203 \/ h = 207 \/ h = 211 -> Data(1, 8)
        [] h = 204 \/ h = 208 -> Data(1, 1)
        [] h = 205 \/ h = 209 -> Data(1, 2)
        [] h >= 212 /\ h <= 216 -> Data(2, Pow2N(h - 212))
        [] h = 220 -> IF Has(2) THEN MsgEndN(B, i + 3, L16, 1) ELSE 0
        [] h = 221 -> IF Has(4) THEN MsgEndN(B, i + 5, L32, 1) ELSE 0
        [] h = 222 -> IF Has(2) THEN MsgEndN(B, i + 3, L16, 2) ELSE 0
        [] h = 223 -> IF Has(4) THEN MsgEndN(B, i + 5, L32, 2) ELSE 0

(* B is exactly one MessagePack value. *)
ValidMsgpack(B) == MsgEnd(B, 1) = Len(B) + 1

(* C2: for every byte sequence B that is one valid MessagePack value and    *)
(* that msgpack_unpack decodes, msgpack_unpack of msgpack_pack of the       *)
(* decoded tree succeeds and yields the tree B decoded to.                  *)
C2_CanonicalAfterOneRound ==
  (pc = "done" /\ round = 1 /\ ValidMsgpack(Bytes(first))) =>
    /\ ret >= 1
    /\ SameShape(TreeOf(heap, orig), TreeOf(heap, root))

(* C3 as stated: msgpack_unpack returns a count of at least 1 or a negative *)
(* value for every slice, the empty one included; it never returns 0.       *)
C3_NeverZero == pc = "done" => (ret >= 1 \/ ret < 0)

(* C3, amended: for the empty slice msgpack_unpack returns 0 and has        *)
(* released the tree; for every other slice it returns a count of at least  *)
(* 1 with no cursor error, -1 on truncated input or -2 on an unknown header *)
(* byte, and on a negative return the tree has been released; the one way   *)
(* it does not return is the process being killed at the read past the end  *)
(* of a slice that ends in a bin 32 or str 32 header of length 0.           *)
C3_UnpackReturn ==
  /\ pc = "done" =>
       IF Bytes(input) = <<>>
         THEN ret = 0 /\ root \in heap.freedN
         ELSE \/ ret >= 1 /\ cur.err = MP_CUR_ERROR_NONE /\ root \notin heap.freedN
              \/ ret = -1 /\ cur.err = MP_CUR_ERROR_EOF /\ root \in heap.freedN
              \/ ret = -2 /\ cur.err = MP_CUR_ERROR_BADFMT /\ root \in heap.freedN
  /\ (pc = "fault" /\ op.n = 0) =>
       LET B == Bytes(input)
       IN  /\ oob
           /\ Len(B) >= 5
           /\ cur.p = Len(B) /\ cur.left = 0 /\ cur.err = MP_CUR_ERROR_NONE
           /\ B[Len(B) - 4] \in {198, 219}
           /\ SubSeq(B, Len(B) - 3, Len(B)) = << 0, 0, 0, 0 >>

(* msgpack_unpack has returned 0 for the empty slice. *)
C3_EmptyReturnsZero == pc = "done" /\ Bytes(input) = <<>> /\ ret = 0 /\ round = 0

RECURSIVE RootChain(_, _)
(* The nodes reached from c through next, in order. *)
RootChain(H, c) ==
  IF c = NULL THEN <<>> ELSE << c >> \o RootChain(H, H.nodes[c].next)

(* A node with a type and a number and nothing else, as TreeOf gives it. *)
Leaf(type, number) == << type, 0, number, 0, <<>>, <<>>, <<>> >>

(* C4: when msgpack_unpack succeeds on a stream of k values it returns k,   *)
(* and *L heads a chain of exactly the k nodes the values were decoded      *)
(* into, linked through next in the order of the offsets their values       *)
(* start at, the last of them decoded from bytes of the input; C0 C3 7F     *)
(* gives 3 and Nil, Bool true, Int 127.                                     *)
C4_RootChain ==
  (pc = "done" /\ ret > 0) =>
    /\ ret = Len(starts)
    /\ RootChain(heap, root) = [i \in 1..Len(starts) |-> starts[i][1]]
    /\ starts[1][2] = 0
    /\ \A i \in 1..(Len(starts) - 1) : starts[i][2] < starts[i + 1][2]
    /\ starts[Len(starts)][2] < Len(Bytes(input))
    /\ (Bytes(input) = << 192, 195, 127 >> =>
          /\ ret = 3
          /\ ChainTrees(heap, root) =
               << Leaf(MP_NIL, Zero64), Leaf(MP_BOOL, U64(1)), Leaf(MP_INT, U64(127)) >>)

(* msgpack_unpack has returned 3 for C0 C3 7F. *)
C4_ThreeRoots ==
  /\ pc = "done"
  /\ round = 0
  /\ Bytes(input) = << 192, 195, 127 >>
  /\ ret = 3
  /\ Len(starts) = 3

(* C5: the decoder never reads an input byte at an offset >= len: every     *)
(* access c->p[i] happens while at least i + 1 bytes remain.                *)
C5_NoReadPastEnd == oob = FALSE

(* C6: when msgpack_unpack fails, every node and payload allocated during   *)
(* the call has been freed by the time it returns.                          *)
C6_FailureFreesAll ==
  (pc = "done" /\ ret < 0) =>
    /\ \A n \in (1..Len(heap.nodes)) \ heap.freedN : n <= mark.n
    /\ \A b \in (1..Len(heap.blocks)) \ heap.freedB : b <= mark.b

(* lo <= n <= hi as int64_t. *)
Between(lo, n, hi) == LeS64(lo, n) /\ LeS64(n, hi)

(* The low w bytes of n, most significant first. *)
LowBytes(n, w) == SubSeq(n, 9 - w, 8)

(* The ordered rule list of the integer encoding, first rule that applies. *)
IntRule(n) ==
  IF Between(S64(-32), n, S64(127)) THEN LowBytes(n, 1)
  ELSE IF Between(S64(128), n, S64(255)) THEN << 204 >> \o LowBytes(n, 1)
  ELSE IF Between(S64(-128), n, S64(-33)) THEN << 208 >> \o LowBytes(n, 1)
  ELSE IF Between(S64(256), n, S64(65535)) THEN << 205 >> \o LowBytes(n, 2)
  ELSE IF Between(S64(-32768), n, S64(-129)) THEN << 209 >> \o LowBytes(n, 2)
  ELSE IF Between(S64(65536), n, << 0, 0, 0, 0, 255, 255, 255, 255 >>)
    THEN << 206 >> \o LowBytes(n, 4)
  ELSE IF Between(<< 255, 255, 255, 255, 128, 0, 0, 0 >>, n, S64(-32769))
    THEN << 210 >> \o LowBytes(n, 4)
  ELSE IF n[1] < 128 THEN << 207 >> \o n
  ELSE << 211 >> \o n

(* C7: for every signed 64-bit n, mp_encode_int emits the first encoding of *)
(* the ordered rule list that applies, payload in big-endian two's          *)
(* complement, and nothing else.                                            *)
C7_IntRules ==
  (pc = "enc" /\ call.fn = "int") =>
    /\ Bytes(buf.b) = IntRule(call.n)
    /\ buf.len = Len(Bytes(buf.b))

(* mp_encode_int has encoded -2^31 as int 32. *)
C7_AtBoundary ==
  /\ pc = "enc"
  /\ call.fn = "int"
  /\ call.n = << 255, 255, 255, 255, 128, 0, 0, 0 >>
  /\ Bytes(buf.b) = << 210, 128, 0, 0, 0 >>

(* Whether w is exactly one wire integer. *)
IsWireInt(w) ==
  /\ Len(w) >= 1
  /\ \/ (w[1] <= 127 \/ w[1] >= 224) /\ Len(w) = 1
     \/ w[1] \in {204, 208} /\ Len(w) = 2
     \/ w[1] \in {205, 209} /\ Len(w) = 3
     \/ w[1] \in {206, 210} /\ Len(w) = 5
     \/ w[1] \in {207, 211} /\ Len(w) = 9

(* The integer a wire integer denotes: whether it is negative, and its 64   *)
(* bits (its magnitude when not negative, two's complement when negative).  *)
Denotes(w) ==
  LET tail == SubSeq(w, 2, Len(w))
      unsigned == w[1] <= 127 \/ w[1] \in 204..207
      bits == IF w[1] <= 127 \/ w[1] >= 224
                THEN (IF unsigned THEN ZeroExtend(<< w[1] >>) ELSE SignExtend(<< w[1] >>))
                ELSE (IF unsigned THEN ZeroExtend(tail) ELSE SignExtend(tail))
  IN  [neg |-> ~unsigned /\ bits[1] >= 128, bits |-> bits]

(* C8: for every wire integer denoting v, msgpack_pack of the node decoded  *)
(* from it emits a wire integer that denotes the same v.                    *)
C8_IntegerPreserved ==
  (pc = "packed" /\ call.fn = "none" /\ IsWireInt(Bytes(input))) =>
    /\ IsWireInt(Bytes(packed.bytes))
    /\ Denotes(Bytes(packed.bytes)) = Denotes(Bytes(input))

(* The big-endian bytes of len in w bytes. *)
BE(len, w) == [i \in 1..w |-> (len \div Pow2N(8 * (w - i))) % 256]

(* The string and binary header families by length. *)
StrHeader(len) ==
  IF len < 32 THEN << 160 + len >>
  ELSE IF len <= 255 THEN << 217 >> \o BE(len, 1)
  ELSE IF len <= 65535 THEN << 218 >> \o BE(len, 2)
  ELSE << 219 >> \o BE(len, 4)

BlobHeader(len) ==
  IF len <= 255 THEN << 196 >> \o BE(len, 1)
  ELSE IF len <= 65535 THEN << 197 >> \o BE(len, 2)
  ELSE << 198 >> \o BE(len, 4)

(* C9: mp_encode_bytes emits fixstr below 32, str 8 up to 0xFF, str 16 up   *)
(* to 0xFFFF and str 32 beyond; mp_encode_blob emits bin 8, bin 16, bin 32  *)
(* on the same limits; the header is followed by exactly the len payload    *)
(* bytes.                                                                   *)
C9_StrBlobHeaders ==
  /\ (pc = "enc" /\ call.fn = "bytes") =>
       Bytes(buf.b) = StrHeader(call.len) \o SubSeq(Bytes(call.s), 1, call.len)
  /\ (pc = "enc" /\ call.fn = "blob") =>
       Bytes(buf.b) = BlobHeader(call.len) \o SubSeq(Bytes(call.s), 1, call.len)

(* mp_encode_bytes has encoded a payload of 32 bytes as str 8. *)
C9_AtBoundary ==
  /\ pc = "enc"
  /\ call.fn = "bytes"
  /\ call.len = 32
  /\ Bytes(buf.b) = << 217, 32 >> \o Bytes(call.s)

(* The extension header: fixext for 1, 2, 4, 8, 16, else ext 8/16/32 with   *)
(* the etype between the header byte and the length.                        *)
ExtHeader(etype, len) ==
  CASE len = 1 -> << 212, etype >>
    [] len = 2 -> << 213, etype >>
    [] len = 4 -> << 214, etype >>
    [] len = 8 -> << 215, etype >>
    [] len = 16 -> << 216, etype >>
    [] OTHER -> IF len <= 255 THEN << 199, etype >> \o BE(len, 1)
                ELSE IF len <= 65535 THEN << 200, etype >> \o BE(len, 2)
                ELSE << 201, etype >> \o BE(len, 4)

(* C10: mp_encode_ext emits fixext 0xD4 + log2(len) and the etype exactly   *)
(* when len is 1, 2, 4, 8 or 16, and for every other length, 0 included,    *)
(* ext 8, ext 16 or ext 32 with the etype between the header byte and the   *)
(* big-endian length; the payload follows.                                  *)
C10_ExtHeaders ==
  (pc = "enc" /\ call.fn = "ext") =>
    Bytes(buf.b) = ExtHeader(call.etype, call.len) \o SubSeq(Bytes(call.s), 1, call.len)

(* mp_encode_ext has encoded an empty payload of etype 7 as ext 8. *)
C10_EmptyPayload ==
  /\ pc = "enc"
  /\ call.fn = "ext"
  /\ call.etype = 7
  /\ call.len = 0
  /\ Bytes(buf.b) = << 199, 7, 0 >>

(* C12: for str 8/16/32 and bin 8/16/32 the decoded node is Str exactly    *)
(* when bit 0x10 of the header byte is set and Blob exactly when it is     *)
(* clear, whatever the payload is.                                         *)
C12_StrIffHeaderBit ==
  LET B == Bytes(first)
  IN  (pc = "done" /\ round = 0 /\ ret >= 1 /\ B[1] \in {196, 197, 198, 217, 218, 219}) =>
        /\ (heap.nodes[root].type = MP_STR) = (BitAnd(B[1], 16) # 0)
        /\ (heap.nodes[root].type = MP_BLOB) = (BitAnd(B[1], 16) = 0)

(* C13: an ext 8/16/32 value laid out as mp_encode_ext writes it (header    *)
(* byte, one etype byte, the 1/2/4-byte big-endian length, then exactly     *)
(* that many payload bytes) decodes to one Ext node with that etype and     *)
(* that payload.                                                            *)
C13_ExtDecodesEncoderLayout ==
  LET B == Bytes(first)
      w == IF B[1] = 199 THEN 1 ELSE IF B[1] = 200 THEN 2 ELSE 4
  IN  (/\ pc = "done" /\ round = 0
       /\ Len(B) >= 2 + w
       /\ B[1] \in {199, 200, 201}
       /\ SubSeq(B, 3, 2 + w) = BE(Len(B) - 2 - w, w)) =>
        /\ ret = 1
        /\ heap.nodes[root].type = MP_EXT
        /\ heap.nodes[root].etype = B[2]
        /\ PayloadOf(heap, root) = SubSeq(B, 3 + w, Len(B))

(* The children of L in heap H, in chain order. *)
Children(H, L) == RootChain(H, H.nodes[L].child)

(* What the encoder emits for node n of the current heap. *)
Enc(n) == mp_encode_value(mp_buf_new, heap, n).b

RECURSIVE Pairs(_, _)
(* The encodings of key and child for the children kids[i..] in order. *)
Pairs(kids, i) ==
  IF i > Len(kids) THEN <<>>
  ELSE Enc(heap.nodes[kids[i]].key) \o Enc(kids[i]) \o Pairs(kids, i + 1)

MapHeader(n) ==
  IF n <= 15 THEN << 128 + n >>
  ELSE IF n <= 65535 THEN << 222 >> \o BE(n, 2)
  ELSE << 223 >> \o BE(n, 4)

(* C11: for every Map node with n children reachable after decode and tree  *)
(* operations, the encoder emits a map header carrying n and then exactly   *)
(* n (key, value) pairs, each child's key right before the child, in        *)
(* insertion order.                                                         *)
C11_MapPairs ==
  (pc = "packed" /\ op.n > 0 /\ heap.nodes[orig].type = MP_MAP) =>
    LET kids == Children(heap, orig)
    IN  /\ \A i \in 1..Len(kids) : heap.nodes[kids[i]].key # NULL
        /\ Bytes(packed.bytes) = MapHeader(Len(kids)) \o Pairs(kids, 1)

Fold(b) == IF b \in 65..90 THEN b + 32 ELSE b

EqNoCase(a, b) == Len(a) = Len(b) /\ \A i \in 1..Len(a) : Fold(a[i]) = Fold(b[i])

(* The positions of the children of L, in heap H, whose key is a Str equal  *)
(* to name ignoring case.                                                   *)
Matches(H, L, name) ==
  {i \in 1..Len(Children(H, L)) :
     LET k == H.nodes[Children(H, L)[i]].key
     IN  k # NULL /\ H.nodes[k].type = MP_STR /\ EqNoCase(PayloadOf(H, k), name)}

Least(S) == CHOOSE i \in S : \A j \in S : i <= j

(* C14: msgpack_get_map_item(map, name) returns the first child whose Str   *)
(* key equals name ignoring case, and null when no child has such a key.    *)
C14_FirstMatch ==
  (pc = "tree" /\ op.fn = "get_map_item") =>
    op.res = IF Matches(op.pre, op.L, op.name) = {} THEN NULL
             ELSE Children(op.pre, op.L)[Least(Matches(op.pre, op.L, op.name))]

(* The sequence s without its element i. *)
Without(s, i) == SubSeq(s, 1, i - 1) \o SubSeq(s, i + 1, Len(s))

(* C16: detach and delete by name remove the entry whose key matches name   *)
(* and no other; when no key matches, detach returns null, delete frees     *)
(* nothing and the map is unchanged.                                        *)
C16_ByNameRemovesMatch ==
  (pc = "tree" /\ op.fn \in {"detach_item_from_map", "delete_item_from_map"}) =>
    LET kids == Children(op.pre, op.L)
        m == Matches(op.pre, op.L, op.name)
    IN  IF m = {} THEN heap = op.pre /\ op.res = NULL
        ELSE /\ Children(heap, op.L) = Without(kids, Least(m))
             /\ IF op.fn = "detach_item_from_map"
                  THEN op.res = kids[Least(m)] /\ heap.freedN = op.pre.freedN
                  ELSE kids[Least(m)] \in heap.freedN

(* The links a chain of siblings has when it is consistent: position i of   *)
(* s points back at position i - 1 and forward at position i + 1.           *)
Linked(H, G, s) ==
  \A i \in 1..Len(s) :
    H.nodes[s[i]] = [G.nodes[s[i]] EXCEPT
                       !.prev = IF i = 1 THEN NULL ELSE s[i - 1],
                       !.next = IF i = Len(s) THEN NULL ELSE s[i + 1]]

Range(s) == {s[i] : i \in 1..Len(s)}

(* C15: for a container with children c0..c(n-1) and 0 <= idx < n,          *)
(* msgpack_detach_item_from_array returns c(idx) with prev = next = null,   *)
(* still owning its key, payload and subtree; the chain becomes the other   *)
(* children in their order, L->child follows a removed head, nothing else   *)
(* changes and the size decreases by exactly one.                           *)
C15_DetachByIndex ==
  (pc = "tree" /\ op.fn = "detach_item_from_array"
     /\ op.idx >= 0 /\ op.idx < Len(Children(op.pre, op.L))) =>
    LET kids == Children(op.pre, op.L)
        c == kids[op.idx + 1]
        rest == Without(kids, op.idx + 1)
    IN  /\ op.res = c
        /\ heap.nodes[c] = [op.pre.nodes[c] EXCEPT !.prev = NULL, !.next = NULL]
        /\ TreeOf(heap, c) = TreeOf(op.pre, c)
        /\ Children(heap, op.L) = rest
        /\ Linked(heap, op.pre, rest)
        /\ heap.nodes[op.L] =
             [op.pre.nodes[op.L] EXCEPT !.child = IF rest = <<>> THEN NULL ELSE rest[1]]
        /\ \A n \in DOMAIN op.pre.nodes \ ({op.L} \cup Range(kids)) :
             heap.nodes[n] = op.pre.nodes[n]
        /\ DOMAIN heap.nodes = DOMAIN op.pre.nodes
        /\ heap.blocks = op.pre.blocks
        /\ heap.freedN = op.pre.freedN /\ heap.freedB = op.pre.freedB
        /\ msgpack_get_array_size(heap, op.L) = Len(kids) - 1

(* The head of a chain of at least two children was detached, key and all. *)
C15_HeadDetached ==
  /\ pc = "tree" /\ op.fn = "detach_item_from_array" /\ op.idx = 0
  /\ Len(Children(op.pre, op.L)) >= 2
  /\ op.res = Children(op.pre, op.L)[1]
  /\ heap.nodes[op.res].key # NULL
  /\ heap.nodes[op.L].child = Children(op.pre, op.L)[2]

(* Node n with its key and its children, without the siblings after it. *)
Subtree(H, n) ==
  {n} \cup FreeWalk(H, H.nodes[n].key) \cup FreeWalk(H, H.nodes[n].child)

(* C17: for 0 <= idx < size msgpack_replace_item_in_array puts newitem at   *)
(* position idx, leaves every other child at its position and unchanged,    *)
(* keeps the size and frees only the old node and its subtree; for          *)
(* idx >= size it changes nothing.                                          *)
C17_ReplaceByIndex ==
  (pc = "tree" /\ op.fn = "replace_item_in_array" /\ op.idx >= 0) =>
    LET kids == Children(op.pre, op.L)
    IN  IF op.idx >= Len(kids) THEN heap = op.pre
        ELSE LET old == kids[op.idx + 1]
                 now == [kids EXCEPT ![op.idx + 1] = op.item]
                 gone == Subtree(op.pre, old)
             IN  /\ Children(heap, op.L) = now
                 /\ Linked(heap, op.pre, now)
                 /\ \A i \in (1..Len(kids)) \ {op.idx + 1} :
                      /\ TreeOf(heap, kids[i]) = TreeOf(op.pre, kids[i])
                      /\ kids[i] \notin heap.freedN
                 /\ heap.nodes[op.L] = [op.pre.nodes[op.L] EXCEPT !.child = now[1]]
                 /\ msgpack_get_array_size(heap, op.L) = Len(kids)
                 /\ heap.freedN = op.pre.freedN \cup gone
                 /\ heap.freedB =
                      op.pre.freedB \cup ({op.pre.nodes[n].data : n \in gone} \ {NULL})
                 /\ \A n \in DOMAIN op.pre.nodes \ ({op.L, old} \cup Range(now)) :
                      heap.nodes[n] = op.pre.nodes[n]
                 /\ heap.blocks = op.pre.blocks

(* The middle child of three was replaced and the third one is still live. *)
C17_MiddleReplaced ==
  /\ pc = "tree" /\ op.fn = "replace_item_in_array" /\ op.idx = 1
  /\ Len(Children(op.pre, op.L)) = 3
  /\ Children(heap, op.L)[2] = op.item
  /\ Children(op.pre, op.L)[2] \in heap.freedN
  /\ Children(op.pre, op.L)[3] \notin heap.freedN

(* C18: in every tree msgpack_unpack produced, and after any sequence of    *)
(* detach, delete, replace and duplicate operations, sibling chains are     *)
(* consistent: n.next.prev = n, n.prev.next = n, and the head of each chain *)
(* (the first root, the first child of a container) has prev = null.        *)
C18_ChainsConsistent ==
  ((pc = "done" /\ ret > 0 /\ round = 0) \/ pc = "tree") =>
    /\ heap.nodes[root].prev = NULL
    /\ \A n \in TreeNodes :
         LET N == heap.nodes[n]
         IN  /\ N.next # NULL => heap.nodes[N.next].prev = n
             /\ N.prev # NULL => heap.nodes[N.prev].next = n
             /\ N.child # NULL => heap.nodes[N.child].prev = NULL

RECURSIVE ValueOf(_, _)
RECURSIVE ChainValues(_, _)

ChainValues(H, c) ==
  IF c = NULL THEN <<>>
  ELSE << ValueOf(H, c) >> \o ChainValues(H, H.nodes[c].next)

(* What structural equality compares: kind, scalar value or payload length, *)
(* etype, payload bytes, key and children in order.                         *)
ValueOf(H, n) ==
  LET N == H.nodes[n]
  IN  << N.type, N.number, N.etype, PayloadOf(H, n),
         IF N.key = NULL THEN <<>> ELSE << ValueOf(H, N.key) >>,
         ChainValues(H, N.child) >>

(* C19: msgpack_duplicate(N, 1) returns a tree structurally equal to N:     *)
(* same kind, scalar value, etype, payload bytes and length, an equal key   *)
(* and equal children in the same order.                                    *)
C19_DuplicateEqual ==
  (pc = "tree" /\ op.fn = "duplicate" /\ op.idx = 1) =>
    /\ op.res # NULL
    /\ ValueOf(heap, op.res) = ValueOf(op.pre, op.item)

(* C20: msgpack_duplicate leaves every field of every source node and       *)
(* every payload as it was, and no node or payload buffer is reachable      *)
(* from both the copy and the source.                                       *)
C20_DuplicateLeavesSource ==
  (pc = "tree" /\ op.fn = "duplicate") =>
    LET src == Subtree(op.pre, op.item)
        cpy == Subtree(heap, op.res)
        BlocksOf(S) == {heap.nodes[n].data : n \in S} \ {NULL}
    IN  /\ \A n \in DOMAIN op.pre.nodes : heap.nodes[n] = op.pre.nodes[n]
        /\ \A b \in DOMAIN op.pre.blocks : heap.blocks[b] = op.pre.blocks[b]
        /\ heap.freedB = op.pre.freedB
        /\ src \cap cpy = {}
        /\ BlocksOf(src) \cap BlocksOf(cpy) = {}

(* The heap with node n cut off from its siblings. *)
Alone(H, n) == [H EXCEPT !.nodes[n].next = NULL, !.nodes[n].prev = NULL]

(* C21: msgpack_pack(L, &len) encodes only L and its descendants, never the *)
(* siblings after L: the result is a non-null buffer of len >= 1 bytes that *)
(* are what L alone encodes to; when the first of several decoded roots is  *)
(* a nil, a boolean or a fixint, the output is that one byte (C0 C3 7F      *)
(* packs as C0).                                                            *)
C21_PackOneNode ==
  pc = "packed" =>
    /\ packed.ptr # NULL
    /\ packed.len >= 1
    /\ packed.len = Len(Bytes(packed.bytes))
    /\ Bytes(packed.bytes) = mp_encode_value(mp_buf_new, Alone(heap, orig), orig).b
    /\ (call = NoCall /\ op.n = 0 /\ ret >= 2
          /\ (Bytes(first)[1] \in {192, 194, 195} \/ Bytes(first)[1] <= 127
                \/ Bytes(first)[1] >= 224)) =>
         Bytes(packed.bytes) = << Bytes(first)[1] >>

(* The first of the three roots of C0 C3 7F was packed. *)
C21_FirstOfThreePacked ==
  /\ pc = "packed"
  /\ Bytes(first) = << 192, 195, 127 >>
  /\ ret = 3
  /\ heap.nodes[orig].next # NULL
  /\ Bytes(packed.bytes) = << 192 >>

(* C22: when msgpack_unpack returns <= 0 for the bytes read from standard   *)
(* input, mp2json writes nothing to standard output and never reads,        *)
(* converts or frees the tree msgpack_unpack has already released.          *)
C22_SilentOnFailure ==
  (pc = "exit" /\ ret <= 0) =>
    /\ tool.wrote = FALSE
    /\ tool.stale = {}
    /\ tool.refreed = {}

(* The offset at which the mp_decode_value call for node n started. *)
StartOf(n) == calls[CHOOSE k \in 1..Len(calls) : calls[k][1] = n][2]

(* The count a container header at offset o of B announces, and how many    *)
(* bytes the header takes.                                                  *)
HeaderCount(B, o) ==
  LET h == B[o + 1]
  IN  CASE h >= 128 /\ h <= 143 -> h - 128
        [] h >= 144 /\ h <= 159 -> h - 144
        [] h = 220 \/ h = 222 -> B[o + 2] * 256 + B[o + 3]
        [] h = 221 \/ h = 223 ->
             B[o + 2] * 16777216 + B[o + 3] * 65536 + B[o + 4] * 256 + B[o + 5]
        [] OTHER -> -1

HeaderLen(B, o) ==
  LET h == B[o + 1]
  IN  IF h = 220 \/ h = 222 THEN 3 ELSE IF h = 221 \/ h = 223 THEN 5 ELSE 1

HeaderKind(B, o) ==
  LET h == B[o + 1]
  IN  IF (h >= 128 /\ h <= 143) \/ h = 222 \/ h = 223 THEN MP_MAP
      ELSE IF (h >= 144 /\ h <= 159) \/ h = 220 \/ h = 221 THEN MP_ARR
      ELSE MP_NIL

(* What a container's payload is on the wire: its children, each preceded   *)
(* by its key in a map.                                                     *)
WireItems(H, L) ==
  LET kids == Children(H, L)
  IN  IF H.nodes[L].type = MP_MAP
        THEN [j \in 1..(2 * Len(kids)) |->
               IF j % 2 = 1 THEN H.nodes[kids[(j + 1) \div 2]].key ELSE kids[j \div 2]]
        ELSE kids

(* C23: when decoding succeeds, a container header with count n yields a    *)
(* node of that kind with exactly n children in wire order (in a map the    *)
(* i-th child is the i-th value and its key slot holds the i-th key); a     *)
(* count of 0 yields a container whose child is null.                       *)
C23_ContainerChildren ==
  (pc = "done" /\ ret > 0) =>
    \A L \in FreeWalk(heap, root) :
      heap.nodes[L].type \in {MP_ARR, MP_MAP} =>
        LET B == Bytes(input)
            o == StartOf(L)
            kids == Children(heap, L)
            items == WireItems(heap, L)
        IN  /\ heap.nodes[L].type = HeaderKind(B, o)
            /\ Len(kids) = HeaderCount(B, o)
            /\ (HeaderCount(B, o) = 0 => heap.nodes[L].child = NULL)
            /\ \A j \in 1..Len(items) : items[j] # NULL
            /\ items # <<>> => StartOf(items[1]) = o + HeaderLen(B, o)
            /\ \A j \in 1..(Len(items) - 1) :
                 /\ StartOf(items[j]) < StartOf(items[j + 1])
                 /\ \A k \in 1..Len(calls) :
                      (StartOf(items[j]) <= calls[k][2] /\ calls[k][2] < StartOf(items[j + 1]))
                        => calls[k][1] \in Subtree(heap, items[j])

(* A map of two pairs whose keys and values are containers was decoded. *)
C23_NestedMapDecoded ==
  /\ pc = "done"
  /\ ret = 1
  /\ Bytes(input) = << 130, 145, 1, 2, 129, 3, 4, 5 >>
  /\ heap.nodes[root].type = MP_MAP
  /\ Len(Children(heap, root)) = 2
  /\ heap.nodes[heap.nodes[Children(heap, root)[2]].key].type = MP_MAP

(* The nodes whose mp_decode_value call has not returned, or has just       *)
(* returned: the pending target and the containers around it.               *)
Decoding == {target} \cup {stack[i].L : i \in 1..Len(stack)}

(* C24: whenever mp_decode_value sets an error while decoding a value into  *)
(* node L, no field of L (type, etype, number, data, child) has been        *)
(* written for that value.                                                  *)
C24_NoPartialNode ==
  (pc = "ret" /\ cur.err # MP_CUR_ERROR_NONE) =>
    \A n \in Decoding :
      /\ heap.nodes[n].type = ZeroNode.type
      /\ heap.nodes[n].etype = ZeroNode.etype
      /\ heap.nodes[n].number = ZeroNode.number
      /\ heap.nodes[n].data = NULL
      /\ heap.nodes[n].child = NULL

(* C25: once the cursor's error flag is set during msgpack_unpack, the      *)
(* cursor's position and remaining length never change again and no further *)
(* value is decoded at any nesting level: the enclosing mp_decode_array and *)
(* mp_decode_hash calls and the top-level loop only return, and unpack      *)
(* returns the negated error code.                                          *)
C25_ErrorStopsDecoding ==
  [][(cur.err # MP_CUR_ERROR_NONE /\ pc \in {"value", "ret"}) =>
       /\ cur' = cur
       /\ calls' = calls
       /\ Len(heap'.nodes) = Len(heap.nodes)
       /\ Len(stack') < Len(stack) \/ (stack = <<>> /\ pc' = "done")
       /\ pc' \in {"ret", "done"}
       /\ pc' = "done" => ret' = 0 - cur.err]_vars

(* The error flag was set two containers deep. *)
C25_ErrorInNestedContainer ==
  /\ pc = "ret"
  /\ cur.err = MP_CUR_ERROR_BADFMT
  /\ Len(stack) = 2
  /\ cur.left > 0

(* C26: throughout msgpack_unpack on an input of length len the cursor      *)
(* satisfies offset + left = len, and every step consumes no more than was  *)
(* left before it, so left never goes below zero.                           *)
C26_CursorInBounds ==
  [][pc' \in {"value", "ret", "done"} =>
       /\ cur'.p + cur'.left = Len(Bytes(input'))
       /\ cur'.p >= 0
       /\ cur'.left >= 0
       /\ pc \in {"value", "ret"} =>
            (cur'.p - cur.p >= 0 /\ cur'.p - cur.p <= cur.left)]_vars

(* A bin 32 value was consumed to the last byte of the input: 5 bytes of    *)
(* header, then the payload.                                                *)
C26_ConsumedToTheEnd ==
  /\ pc = "ret"
  /\ cur.err = MP_CUR_ERROR_NONE
  /\ Bytes(input) = << 198, 0, 0, 0, 1, 65 >>
  /\ cur.p = 6
  /\ cur.left = 0

(* C27: msgpack_unpack terminates on every finite input: every              *)
(* mp_decode_value call, of the top-level loop or inside a container,       *)
(* either consumes at least one byte or sets the error flag, the call       *)
(* comes to an end (it returns, or the process is killed in it), and an     *)
(* array 32 header announcing 2^32 - 1 children over one remaining byte     *)
(* ends in an EOF error.                                                    *)
C27_UnpackTerminates ==
  /\ [][pc = "value" =>
          (cur'.p > cur.p /\ cur'.left < cur.left) \/ cur'.err # MP_CUR_ERROR_NONE]_vars
  /\ [](pc = "done" /\ Bytes(input) = << 221, 255, 255, 255, 255, 0 >> => ret = -1)
  /\ [](pc = "fault" => oob)
  /\ (pc \in {"value", "ret"}) ~> (pc \in {"done", "fault"})

(* The array 32 header with one child behind it was run to its return. *)
C27_HugeCountReturned ==
  /\ pc = "done"
  /\ Bytes(input) = << 221, 255, 255, 255, 255, 0 >>
  /\ cur.err = MP_CUR_ERROR_EOF
  /\ cur.left = 0
  /\ Len(calls) = 3

(* What an indexed call did to container op.L, whose children were kids,    *)
(* when it settled on position at (0-based), or on none when at is not a    *)
(* position of kids.                                                        *)
IndexedCall(kids, at) ==
  LET hit == at >= 0 /\ at < Len(kids)
  IN  /\ op.fn = "get_array_item" =>
           /\ heap = op.pre
           /\ op.res = IF hit THEN kids[at + 1] ELSE NULL
      /\ op.fn = "detach_item_from_array" =>
           IF hit THEN /\ op.res = kids[at + 1]
                       /\ Children(heap, op.L) = Without(kids, at + 1)
                       /\ heap.freedN = op.pre.freedN
                  ELSE op.res = NULL /\ heap = op.pre
      /\ op.fn = "delete_item_from_array" =>
           IF hit THEN /\ Children(heap, op.L) = Without(kids, at + 1)
                       /\ heap.freedN = op.pre.freedN \cup Subtree(op.pre, kids[at + 1])
                  ELSE heap = op.pre
      /\ op.fn = "get_array_size" =>
           /\ heap = op.pre
           /\ op.res = Len(kids)
           /\ op.n = 1 => op.res = HeaderCount(Bytes(input), StartOf(op.L))

IndexedFns ==
  {"get_array_item", "detach_item_from_array", "delete_item_from_array", "get_array_size"}

(* C28 as stated: for a container with n children msgpack_get_array_item    *)
(* returns the idx-th child when 0 <= idx < n and null for every other idx, *)
(* negative ones included; detach and delete by an idx outside [0, n)       *)
(* return null, free nothing and leave the container unchanged;             *)
(* msgpack_get_array_size returns n.                                        *)
C28_OutsideIsNull ==
  (pc = "tree" /\ op.fn \in IndexedFns) =>
    IndexedCall(Children(op.pre, op.L), op.idx)

(* C28, amended: msgpack_get_array_item returns the idx-th child when       *)
(* 0 <= idx < n and null when idx >= n; detach and delete by an idx >= n    *)
(* return null, free nothing and leave the container unchanged; a negative  *)
(* idx is taken as 0 by all three (the first child is returned, detached or *)
(* freed; null and no change when there is none); msgpack_get_array_size    *)
(* returns n.                                                               *)
C28_NegativeIsFirst ==
  (pc = "tree" /\ op.fn \in IndexedFns) =>
    IndexedCall(Children(op.pre, op.L), IF op.idx < 0 THEN 0 ELSE op.idx)

(* msgpack_detach_item_from_array(L, -1) took the first of several children. *)
C28_FirstDetachedByMinusOne ==
  /\ pc = "tree" /\ op.fn = "detach_item_from_array" /\ op.idx = -1
  /\ Len(Children(op.pre, op.L)) >= 2
  /\ op.res = Children(op.pre, op.L)[1]
  /\ heap.nodes[op.L].child = Children(op.pre, op.L)[2]

RECURSIVE Concat(_)
(* The strings of ss one after the other. *)
Concat(ss) == IF ss = <<>> THEN <<>> ELSE Head(ss) \o Concat(Tail(ss))

(* C29: after any sequence of mp_buf_append calls on a new buffer the       *)
(* first len bytes of the buffer are the appended strings in call order,    *)
(* len is the sum of their lengths and len + free is the allocated          *)
(* capacity; a call reallocates only when free < need, to the capacity      *)
(* (len + need) * 2, and the bytes appended earlier survive every growth.   *)
C29_BufferAppends ==
  /\ [](pc = "buf" =>
          /\ Bytes(buf.b) = Concat(appends)
          /\ buf.len = Len(Concat(appends))
          /\ buf.len + buf.free = buf.cap)
  /\ [][(pc = "buf" /\ Len(appends') = Len(appends) + 1) =>
          LET need == Len(appends'[Len(appends')])
          IN  /\ buf'.grows # buf.grows <=> buf.free < need
              /\ buf'.cap = IF buf.free < need THEN (buf.len + need) * 2 ELSE buf.cap
              /\ SubSeq(Bytes(buf'.b), 1, buf.len) = Bytes(buf.b)
              /\ SubSeq(Bytes(buf'.b), buf.len + 1, buf'.len) = appends'[Len(appends')]]_vars

(* A third append made the buffer grow a second time, around bytes that two *)
(* earlier appends had written.                                             *)
C29_GrownAroundBytes ==
  /\ pc = "buf"
  /\ Len(appends) = 3
  /\ buf.grows = 2
  /\ appends[1] # <<>> /\ appends[2] # <<>>
  /\ buf.len = 13
  /\ buf.cap = 26

====
